---- MODULE Spec2Model ----
(***************************************************************************)
(* Model of the asynchronous job-correlation and notification pipeline of  *)
(* the Jenkins MCP server: JobTrackerService (Redis correlation store),    *)
(* TriggerJobTool, the webhookAuth middleware and WebhookHandler.          *)
(*                                                                         *)
(* JavaScript objects are records; an absent (undefined) property is a     *)
(* field that is not in the record's DOMAIN.  null is the record Null.     *)
(***************************************************************************)
EXTENDS Integers, Sequences, FiniteSets, TLC

\* ------------------------------------------------------------------ bounds
MaxBuild == 1          \* build numbers the CI server hands out: 1..MaxBuild
MaxReq == 1            \* webhook requests in flight at the same time
MaxRetries == 7        \* retry counts handed to reconnectStrategy: 0..MaxRetries
MaxJobs == 2           \* jobs in the list the CI server returns: 0..MaxJobs
MaxInstalls == 2       \* times initialize() installs the request handlers

\* --------------------------------------------------------- program constants
TTL_SECONDS == 3600

\* waitForBuildNumber: maxWait and the pause between two polls, milliseconds
MAX_WAIT == 30000

POLL_INTERVAL == 1000

\* JobTrackerService.maxReconnectAttempts, and the step and the cap of the
\* delay reconnectStrategy returns, milliseconds
maxReconnectAttempts == 5

RETRY_STEP == 100

RETRY_CAP == 3000

\* ------------------------------------------------------------ value domains
JobNames == {"deploy"}
BuildNumbers == 1..MaxBuild
Trackers == {"tool", "webhook"}
ReqIds == 1..MaxReq
TerminalStatuses == {"SUCCESS", "FAILURE", "UNSTABLE", "ABORTED"}
ValidPhases == {"STARTED", "COMPLETED", "FINALIZED"}

Null == [isNull |-> TRUE]

Has(obj, f) == f \in DOMAIN obj

Drop(obj, fs) == [f \in DOMAIN obj \ fs |-> obj[f]]

cbA == [slackChannel |-> "#deploys", slackThreadTs |-> "1.1", slackUserId |-> "UA"]

cbB == [slackChannel |-> "#ops", slackThreadTs |-> "2.2", slackUserId |-> "UB"]

CallbackInfos == {cbA, cbB}

\* the instants Date.now() returns
Clock == {5000}

\* includes(): an error message is the sequence of its words
Includes(msg, w) == \E i \in 1..Len(msg) : msg[i] = w

\* ------------------------------------------------------------ error classes
AppErrorClasses == {"JenkinsError", "AuthenticationError", "JobNotFoundError",
                    "BuildNotFoundError", "MCPError", "RedisError",
                    "ConfigurationError", "WebhookError"}

\* new X(message): class, message and the class's errorType
ErrorType(cls) ==
    CASE cls = "JenkinsError" -> "JENKINS_ERROR"
      [] cls = "AuthenticationError" -> "AUTHENTICATION_ERROR"
      [] cls = "JobNotFoundError" -> "JOB_NOT_FOUND"
      [] cls = "BuildNotFoundError" -> "BUILD_NOT_FOUND"
      [] cls = "MCPError" -> "MCP_ERROR"
      [] cls = "RedisError" -> "REDIS_ERROR"
      [] cls = "ConfigurationError" -> "CONFIGURATION_ERROR"
      [] cls = "WebhookError" -> "WEBHOOK_ERROR"
      [] OTHER -> "NONE"

MkError(cls, msg) == [class |-> cls, message |-> msg]

handleError(error) ==
    IF error.class \in AppErrorClasses THEN error
    ELSE IF Includes(error.message, "ECONNREFUSED") \/ Includes(error.message, "Redis")
         THEN MkError("RedisError", <<"Redis", "connection", "failed:">> \o error.message)
    ELSE IF Includes(error.message, "401") \/ Includes(error.message, "Unauthorized")
         THEN MkError("AuthenticationError", <<"Authentication", "failed:">> \o error.message)
    ELSE IF Includes(error.message, "404") \/ Includes(error.message, "Not Found")
         THEN MkError("JenkinsError", <<"Resource", "not", "found:">> \o error.message)
    ELSE IF Includes(error.message, "status code")
         THEN MkError("JenkinsError", <<"Jenkins", "API", "error:">> \o error.message)
    ELSE MkError("MCPError", <<"Unexpected", "error:">> \o error.message)

formatMCPError(error) ==
    IF error.class \in AppErrorClasses
    THEN [error |-> [code |-> ErrorType(error.class), message |-> error.message,
                     details |-> [name |-> error.class, errorType |-> ErrorType(error.class)]]]
    ELSE [error |-> [code |-> "INTERNAL_ERROR", message |-> error.message,
                     details |-> [name |-> error.class]]]

NotConnectedError == MkError("Error", <<"Redis", "client", "not", "connected">>)

\* errors a Redis command rejects with when the socket fails under it
StoreErrors == {MkError("Error", <<"Socket", "closed", "unexpectedly">>),
                MkError("Error", <<"connect", "ECONNREFUSED">>)}

\* errors axios.post rejects with
PostErrors == {MkError("Error", <<"Network", "error">>),
               MkError("AxiosError", <<"Request", "failed", "with", "status code", "500">>)}

\* --------------------------------------------------------------- signatures
\* crypto.createHmac(alg, key).update(body).digest('hex'): HMAC is taken to be
\* collision free, so a digest is determined by exactly (alg, key, body).  The
\* value is the hex text; edit tells how a text differs from the lower-case
\* text digest('hex') returns.
HmacHex(alg, key, body) == [alg |-> alg, key |-> key, body |-> body, edit |-> "none"]

\* ways to change one character of a hex text: a letter to upper case, a
\* digit to another digit, a character to one that is not a hex digit
HexEdits == {"upcase", "digit", "nonhex"}

EditHex(text, e) == [text EXCEPT !.edit = e]

\* Buffer.from(text, 'hex'): case is ignored, decoding stops at the first
\* character that is not a hex digit
BufferFromHex(text) ==
    [alg |-> text.alg, key |-> text.key, body |-> text.body,
     bytes |-> CASE text.edit \in {"none", "upcase"} -> "digest"
                 [] text.edit = "digit" -> "altered"
                 [] OTHER -> "cut"]

\* byteLength: the digest size of the algorithm, less when decoding stopped
SameByteLength(a, b) == a.alg = b.alg /\ (a.bytes = "cut") = (b.bytes = "cut")

\* crypto.timingSafeEqual(a, b) throws a RangeError on different lengths
timingSafeEqual(a, b) ==
    IF ~SameByteLength(a, b) THEN [threw |-> TRUE, value |-> FALSE]
    ELSE [threw |-> FALSE, value |-> (a = b)]

ConfiguredSecrets == {"", "s3cret"}

\* JSON.stringify(value): the compact serialization of a JSON value
JSONStringify(value) == [form |-> "compact", json |-> value]

\* another serialization of the same value (indented, keys in another order)
JSONPretty(value) == [form |-> "pretty", json |-> value]

\* JSON.parse(text); a text that is not JSON has no json field and throws
CanParse(text) == Has(text, "json")

JSONParse(text) == text.json

\* slip: the test for a configured secret is left out
isValidSignature_AnySecret(sec, body, signature) ==
    LET cmp == IF signature.prefix = "sha1="
               THEN timingSafeEqual(BufferFromHex(HmacHex("sha1", sec, body)),
                                    BufferFromHex(signature.mac))
               ELSE timingSafeEqual(BufferFromHex(HmacHex("sha256", sec, body)),
                                    BufferFromHex(signature.mac))
    IN IF cmp.threw THEN FALSE ELSE cmp.value

\* isValidSignature(body, signature) under config.webhook.secret = sec
isValidSignature(sec, body, signature) ==
    LET calculatedSignature == HmacHex("sha256", sec, body)
        calculatedSha1 == HmacHex("sha1", sec, body)
        providedSignature == signature.mac
        cmp == IF signature.prefix = "sha1="
               THEN timingSafeEqual(BufferFromHex(calculatedSha1),
                                    BufferFromHex(providedSignature))
               ELSE timingSafeEqual(BufferFromHex(calculatedSignature),
                                    BufferFromHex(providedSignature))
    IN IF sec = "" THEN FALSE
       ELSE IF cmp.threw THEN FALSE
       ELSE cmp.value

AuthFailedBody(msg) == [error |-> [code |-> "WEBHOOK_AUTH_FAILED", message |-> msg]]

\* slip: a request without a signature header is let through
webhookAuth_MissingPasses(sec, sig, reqBody) ==
    IF sig = Null THEN Null
    ELSE IF ~isValidSignature(sec, JSONStringify(reqBody), sig)
    THEN [status |-> 401, body |-> AuthFailedBody(<<"Invalid", "webhook", "signature">>)]
    ELSE Null

\* webhookAuth(req, res, next): Null when next() is called, else the response
webhookAuth(sec, sig, reqBody) ==
    IF sig = Null
    THEN [status |-> 401, body |-> AuthFailedBody(<<"Missing", "webhook", "signature">>)]
    ELSE IF ~isValidSignature(sec, JSONStringify(reqBody), sig)
    THEN [status |-> 401, body |-> AuthFailedBody(<<"Invalid", "webhook", "signature">>)]
    ELSE Null

\* ----------------------------------------------------------------- payloads
Url(parts) == <<"http:">> \o parts

BadUrl == <<"invalid-url">>

\* Joi.string().uri(): a scheme is required
IsUri(u) == Len(u) > 0 /\ u[1] \in {"http:", "https:"}

PayloadTimestamp == 1234567890

PayloadDuration == 60000

FullPayload(n, num, ph, st) ==
    [name |-> n, url |-> Url(<<"jenkins", "job", n>>),
     build |-> [number |-> num, phase |-> ph, status |-> st,
                url |-> <<"job", n, num>>,
                full_url |-> Url(<<"jenkins", "job", n, num>>),
                timestamp |-> PayloadTimestamp, duration |-> PayloadDuration]]

DropBuild(p, fs) == [p EXCEPT !.build = Drop(p.build, fs)]

CompletedPayloads ==
    {FullPayload(n, num, "COMPLETED", st) :
        n \in JobNames, num \in BuildNumbers, st \in TerminalStatuses}
    \cup {DropBuild(FullPayload(n, num, "COMPLETED", "SUCCESS"), {"timestamp", "duration"}) :
        n \in JobNames, num \in BuildNumbers}

IgnoredPayloads ==
    {DropBuild(FullPayload(n, num, ph, "SUCCESS"), {"status"}) :
        n \in JobNames, num \in BuildNumbers, ph \in ValidPhases}
    \cup {FullPayload(n, num, "FINALIZED", "SUCCESS") : n \in JobNames, num \in BuildNumbers}

InvalidPayloads ==
    LET ok == FullPayload("deploy", 1, "COMPLETED", "SUCCESS") IN
    { Drop(ok, {"name"}),
      [ok EXCEPT !.name = ""],
      [ok EXCEPT !.url = BadUrl],
      Drop(ok, {"build"}),
      [ok EXCEPT !.build.number = 0],
      [ok EXCEPT !.build.number = -1],
      DropBuild(ok, {"number"}),
      [ok EXCEPT !.build.phase = "QUEUED"],
      DropBuild(ok, {"phase"}),
      [ok EXCEPT !.build.status = "RUNNING"],
      DropBuild(ok, {"url"}),
      [ok EXCEPT !.build.full_url = BadUrl] }

Payloads == CompletedPayloads \cup IgnoredPayloads \cup InvalidPayloads

\* webhookPayloadSchema: TRUE when schema.validate reports no error
SchemaAccepts(p) ==
    /\ Has(p, "name") /\ p.name # ""
    /\ Has(p, "url") /\ IsUri(p.url)
    /\ Has(p, "build")
    /\ Has(p.build, "number") /\ p.build.number > 0
    /\ Has(p.build, "phase") /\ p.build.phase \in ValidPhases
    /\ (Has(p.build, "status") => p.build.status \in TerminalStatuses)
    /\ Has(p.build, "url")
    /\ Has(p.build, "full_url") /\ IsUri(p.build.full_url)

ValidationFailed == MkError("ValidationError", <<"Input", "validation", "failed">>)

\* validateInput(schema, input): the value, or the ValidationError it throws
validateInput(input) ==
    IF SchemaAccepts(input) THEN [ok |-> TRUE, value |-> input]
    ELSE [ok |-> FALSE, error |-> ValidationFailed]

\* signature headers a sender may attach to a body whose parsed value is p
OtherBody == JSONStringify([name |-> "other"])

\* the GitHub-style header of a sender that holds the secret
SignedHeader(p) ==
    [prefix |-> "sha256=", mac |-> HmacHex("sha256", "s3cret", JSONStringify(p))]

SigHeaders(p) ==
    { Null,
      SignedHeader(p),
      [prefix |-> "sha1=", mac |-> HmacHex("sha1", "s3cret", JSONStringify(p))],
      [prefix |-> "", mac |-> HmacHex("sha256", "s3cret", JSONStringify(p))],
      [prefix |-> "sha256=", mac |-> HmacHex("sha256", "wrong", JSONStringify(p))],
      [prefix |-> "sha1=", mac |-> HmacHex("sha256", "s3cret", JSONStringify(p))],
      [prefix |-> "", mac |-> HmacHex("sha256", "s3cret", OtherBody)] }

\* POST /webhook/jenkins requests: the body text and the signature header
Deliveries ==
    UNION {{[raw |-> JSONStringify(p), sig |-> sig] : sig \in SigHeaders(p)} : p \in Payloads}

\* the requests of a Jenkins that holds the secret and sends well-formed bodies
SignedDeliveries ==
    {[raw |-> JSONStringify(p), sig |-> SignedHeader(p)] :
        p \in CompletedPayloads \cup IgnoredPayloads}

\* requests for the signature check: every sender key, digest algorithm,
\* header prefix and one-character edit, over either serialization of the body
SenderKeys == {"s3cret", ""}

SignaturePayloads ==
    {FullPayload(n, num, "COMPLETED", "SUCCESS") : n \in JobNames, num \in BuildNumbers}

BodyTexts(p) == {JSONStringify(p), JSONPretty(p)}

SignatureHeaders(p) ==
    {Null} \cup
    {[prefix |-> pre, mac |-> EditHex(HmacHex(alg, key, text), e)] :
        pre \in {"sha256=", "sha1=", ""}, alg \in {"sha256", "sha1"},
        key \in SenderKeys, text \in BodyTexts(p), e \in {"none"} \cup HexEdits}

SignatureDeliveries ==
    UNION {{[raw |-> raw, sig |-> sig] : raw \in BodyTexts(p), sig \in SignatureHeaders(p)} :
            p \in SignaturePayloads}

\* ------------------------------------- MCPToolRegistry, MCPServerService
ToolNames == {"trigger_jenkins_job", "get_job_status", "list_jenkins_jobs",
              "get_job_parameters"}

\* tool names a CallTool request may carry
RequestedNames == ToolNames \cup {"unknown_tool"}

\* names the registry's callers register and unregister tools under
TestNames == {"test-tool", "schema-name"}

RegistryNames == RequestedNames \cup TestNames

\* an inputSchema: its type ("undefined" when the object has none), the names
\* defined in its properties, and its required list; a field an object lacks
\* is not in the record
RequiredList(items) == [isArray |-> TRUE, items |-> items]

InputSchemas ==
    {[type |-> "undefined"],
     [type |-> "string", properties |-> {}],
     [type |-> "object"],
     [type |-> "object", properties |-> {}],
     [type |-> "object", properties |-> {"param1"},
      required |-> RequiredList(<<"param1">>)],
     [type |-> "object", properties |-> {"param1"},
      required |-> RequiredList(<<"param2">>)],
     [type |-> "object", properties |-> {"param1"},
      required |-> [isArray |-> FALSE, items |-> <<>>]]}

\* the schemas callers hand to registerTool; '' is the falsy string
Schemas ==
    {[name |-> n, description |-> d] : n \in TestNames \cup {""},
                                       d \in {"", "A test tool"}}
    \cup {[name |-> n, description |-> d, inputSchema |-> i] :
             n \in TestNames \cup {""}, d \in {"", "A test tool"},
             i \in InputSchemas}

Implementations == {"implA", "implB"}

\* validateSchema(schema): the Error it throws, or Null
validateSchema(schema) ==
    IF schema.name = ""
    THEN MkError("Error", <<"Tool", "schema", "must", "have", "a", "valid", "name">>)
    ELSE IF schema.description = ""
    THEN MkError("Error", <<"Tool", "schema", "must", "have", "a", "valid", "description">>)
    ELSE IF ~Has(schema, "inputSchema")
    THEN MkError("Error", <<"Tool", "schema", "must", "have", "a", "valid", "inputSchema">>)
    ELSE IF schema.inputSchema.type # "object"
    THEN MkError("Error", <<"Tool", "inputSchema", "type", "must", "be", "object">>)
    ELSE IF ~Has(schema.inputSchema, "properties")
    THEN MkError("Error", <<"Tool", "inputSchema", "must", "have", "properties">>)
    ELSE IF ~Has(schema.inputSchema, "required")
    THEN Null
    ELSE IF ~schema.inputSchema.required.isArray
    THEN MkError("Error", <<"Tool", "inputSchema.required", "must", "be", "an", "array">>)
    ELSE LET items == schema.inputSchema.required.items
             missing == {i \in 1..Len(items) :
                            items[i] \notin schema.inputSchema.properties}
         IN IF missing = {}
            THEN Null
            ELSE LET first == CHOOSE i \in missing : \A j \in missing : i <= j
                 IN MkError("Error", <<"Required", "field", items[first], "is", "not",
                                       "defined", "in", "properties">>)

NameMismatch(schemaName, toolName) ==
    MkError("Error", <<"Tool", "name", "mismatch:", schemaName, toolName>>)

\* slip: the comparison of schema.name with toolName is left out
registerTool_NoNameCheck(tools, toolName, schema, implementation) ==
    LET invalid == validateSchema(schema) IN
    IF invalid # Null
    THEN [threw |-> TRUE, error |-> handleError(invalid), tools |-> tools]
    ELSE [threw |-> FALSE,
          tools |-> [tools EXCEPT ![toolName] =
                        [schema |-> schema, implementation |-> implementation]]]

\* registerTool(toolName, schema, implementation) on the map tools: whether it
\* threw, what it threw, and the map afterwards
registerTool(tools, toolName, schema, implementation) ==
    LET invalid == validateSchema(schema) IN
    IF invalid # Null
    THEN [threw |-> TRUE, error |-> handleError(invalid), tools |-> tools]
    ELSE IF schema.name # toolName
    THEN [threw |-> TRUE, error |-> handleError(NameMismatch(schema.name, toolName)),
          tools |-> tools]
    ELSE [threw |-> FALSE,
          tools |-> [tools EXCEPT ![toolName] =
                        [schema |-> schema, implementation |-> implementation]]]

\* unregisterTool(toolName): Map.delete
unregisterTool(tools, toolName) ==
    [existed |-> tools[toolName] # Null, tools |-> [tools EXCEPT ![toolName] = Null]]

clear(tools) == [n \in DOMAIN tools |-> Null]

\* tools.size
Size(tools) == Cardinality({n \in DOMAIN tools : tools[n] # Null})

\* tool-schemas.ts: the properties and the required list of each tool
ToolProperties(n) ==
    CASE n = "trigger_jenkins_job" -> {"jobName", "parameters", "callbackInfo"}
      [] n = "get_job_status" -> {"jobName", "buildNumber"}
      [] n = "list_jenkins_jobs" -> {"filter", "includeDisabled"}
      [] n = "get_job_parameters" -> {"jobName"}

ToolRequired(n) ==
    CASE n = "trigger_jenkins_job" -> <<"jobName", "parameters", "callbackInfo">>
      [] n = "get_job_status" -> <<"jobName", "buildNumber">>
      [] n = "get_job_parameters" -> <<"jobName">>

\* allToolSchemas.find(schema => schema.name === n)
ToolSchema(n) ==
    IF n = "list_jenkins_jobs"
    THEN [name |-> n, description |-> "List available Jenkins jobs",
          inputSchema |-> [type |-> "object", properties |-> ToolProperties(n)]]
    ELSE [name |-> n, description |-> "tool description",
          inputSchema |-> [type |-> "object", properties |-> ToolProperties(n),
                           required |-> RequiredList(ToolRequired(n))]]

\* the order registerAllTools registers in
ToolOrder == <<"trigger_jenkins_job", "get_job_status", "list_jenkins_jobs",
               "get_job_parameters">>

RECURSIVE RegisterFrom(_, _)
RegisterFrom(tools, i) ==
    IF i > Len(ToolOrder)
    THEN [threw |-> FALSE, tools |-> tools]
    ELSE LET r == registerTool(tools, ToolOrder[i], ToolSchema(ToolOrder[i]),
                               ToolOrder[i])
         IN IF r.threw THEN r ELSE RegisterFrom(r.tools, i + 1)

registerAllTools(tools) == RegisterFrom(tools, 1)

\* new MCPServerService(server)
NewService ==
    [isInitialized |-> FALSE, tools |-> [n \in RegistryNames |-> Null], installs |-> 0]

\* slip: the isInitialized guard of initialize() is left out
initialize_NoGuard(m) ==
    LET r == registerAllTools(m.tools) IN
    IF r.threw
    THEN [m EXCEPT !.tools = r.tools]
    ELSE [isInitialized |-> TRUE, tools |-> r.tools, installs |-> m.installs + 1]

\* initialize(): registerAllTools, setupMessageHandlers, isInitialized = true
initialize(m) ==
    IF m.isInitialized
    THEN m
    ELSE LET r == registerAllTools(m.tools) IN
         IF r.threw
         THEN [m EXCEPT !.tools = r.tools]
         ELSE [isInitialized |-> TRUE, tools |-> r.tools, installs |-> m.installs + 1]

\* stop(): toolRegistry.clear(), isInitialized = false
stop(m) ==
    IF ~m.isInitialized
    THEN m
    ELSE [m EXCEPT !.tools = clear(m.tools), !.isInitialized = FALSE]

\* ------------------------------------------------------------------- state
VARIABLES
    secret,        \* config.webhook.secret
    mainPc,        \* progress of main() in index.ts
    isConnected,   \* JobTrackerService.isConnected, per instance
    store,         \* the Redis keyspace: key -> [value, ttl] or Null
    req,           \* the webhook requests being served, per slot
    trig,          \* the trigger_jenkins_job call being served
    api,           \* a direct call of an exported function, and per key the
                   \* object of the latest trackJob since the key was last
                   \* removed, expired or overwritten from outside
    sock,          \* per instance, the reconnection of its Redis socket: failed
                   \* attempts since the last 'connect', the delay before the
                   \* latest attempt, and whether the client has given up
    mcp            \* MCPServerService: isInitialized, the tools map of its
                   \* MCPToolRegistry, and how often the request handlers
                   \* have been installed on the server

vars == <<secret, mainPc, isConnected, store, req, trig, api, sock, mcp>>

\* `job:${jobName}:${buildNumber}`
Key(jobName, buildNumber) == <<"job", jobName, buildNumber>>

Keys == {Key(n, b) : n \in JobNames, b \in BuildNumbers}

RetiringStatuses == {"SUCCESS", "FAILURE", "ABORTED"}

NoCalls == [validate |-> 0, lookup |-> 0, post |-> 0, update |-> 0, setEx |-> 0]

IdleReq ==
    [pc |-> "idle", raw |-> Null, sig |-> Null, body |-> Null, pending |-> Null,
     readOk |-> TRUE, post |-> Null, postOk |-> FALSE, resp |-> Null, sent |-> 0,
     calls |-> NoCalls]

IdleTrig ==
    [pc |-> "idle", args |-> Null, queueId |-> 0, elapsed |-> 0, assigned |-> 0,
     buildNumber |-> 0, result |-> Null, tracked |-> FALSE]

QueueId == 456

IdleCall == [fn |-> "none", pc |-> "idle"]

IdleApi == [call |-> IdleCall, last |-> [k \in Keys |-> Null]]

FreshSock == [retries |-> 0, delay |-> 0, gaveUp |-> FALSE]

Init ==
    /\ secret \in ConfiguredSecrets
    /\ mainPc = "starting"
    /\ isConnected = [t \in Trackers |-> FALSE]
    /\ store = [k \in Keys |-> Null]
    /\ req = [r \in ReqIds |-> IdleReq]
    /\ trig = IdleTrig
    /\ api = IdleApi
    /\ sock = [t \in Trackers |-> FreshSock]
    /\ mcp = NewService

\* ------------------------------------------------------------ index.ts main
\* mcpService.initialize(); server.connect(transport)
MainInitializeMCP ==
    /\ mainPc = "starting"
    /\ mainPc' = "mcpReady"
    /\ mcp' = initialize(mcp)
    /\ UNCHANGED <<secret, sock, api, isConnected, store, req, trig>>

\* jobTracker.initialize(): client.connect() resolves after the 'connect'
\* event, or rejects and main() exits
MainInitializeTracker ==
    /\ mainPc = "mcpReady"
    /\ \E ok \in BOOLEAN :
        IF ok
        THEN /\ isConnected' = [isConnected EXCEPT !["webhook"] = TRUE]
             /\ mainPc' = "trackerReady"
        ELSE /\ mainPc' = "exited"
             /\ UNCHANGED isConnected
    /\ UNCHANGED <<secret, mcp, sock, api, store, req, trig>>

\* webhookHandler.start()
MainStartWebhook ==
    /\ mainPc = "trackerReady"
    /\ mainPc' = "listening"
    /\ UNCHANGED <<secret, mcp, sock, api, isConnected, store, req, trig>>

Running == mainPc \in {"mcpReady", "trackerReady", "listening"}

\* client.connect() has been called on this instance's Redis client
ClientStarted(t) == t = "webhook" /\ mainPc \in {"trackerReady", "listening"}

\* client.on('error')
ClientError(t) ==
    /\ ClientStarted(t)
    /\ isConnected[t]
    /\ isConnected' = [isConnected EXCEPT ![t] = FALSE]
    /\ UNCHANGED <<secret, mcp, sock, api, mainPc, store, req, trig>>

\* client.on('disconnect')
ClientDisconnect(t) ==
    /\ ClientStarted(t)
    /\ isConnected[t]
    /\ isConnected' = [isConnected EXCEPT ![t] = FALSE]
    /\ UNCHANGED <<secret, mcp, sock, api, mainPc, store, req, trig>>

\* client.on('connect'): an attempt to open the socket has succeeded
ClientConnect(t) ==
    /\ ClientStarted(t)
    /\ ~isConnected[t]
    /\ ~sock[t].gaveUp
    /\ isConnected' = [isConnected EXCEPT ![t] = TRUE]
    /\ sock' = [sock EXCEPT ![t] = FreshSock]
    /\ UNCHANGED <<secret, mcp, api, mainPc, store, req, trig>>

Min(a, b) == IF a < b THEN a ELSE b

RetryCounts == 0..MaxRetries

\* slip: the strategy has no give-up test
reconnectStrategy_NeverStops(retries) ==
    [stop |-> FALSE, delay |-> Min(retries * RETRY_STEP, RETRY_CAP)]

\* socket.reconnectStrategy(retries): false (stop) or the delay in ms
reconnectStrategy(retries) ==
    IF retries > maxReconnectAttempts
    THEN [stop |-> TRUE, delay |-> 0]
    ELSE [stop |-> FALSE, delay |-> Min(retries * RETRY_STEP, RETRY_CAP)]

\* an attempt to open the socket has failed: the client asks the strategy
\* with the count of failed attempts so far, and waits or stops for good
ReconnectAttempt(t) ==
    /\ ClientStarted(t)
    /\ ~isConnected[t]
    /\ ~sock[t].gaveUp
    /\ sock[t].retries < MaxRetries
    /\ LET s == reconnectStrategy(sock[t].retries)
       IN IF s.stop
          THEN sock' = [sock EXCEPT ![t].gaveUp = TRUE]
          ELSE sock' = [sock EXCEPT ![t].retries = @ + 1, ![t].delay = s.delay]
    /\ UNCHANGED <<secret, mcp, api, mainPc, isConnected, store, req, trig>>

\* ------------------------------------------------------ JobTrackerService
\* slip: the callbackInfo is not part of what is stored
SetExEntry_DropsCallback(jobInfo) ==
    [value |-> JSONStringify(Drop(jobInfo, {"callbackInfo"})), ttl |-> TTL_SECONDS]

\* what client.setEx(key, 3600, JSON.stringify(jobInfo)) leaves under the key
SetExEntry(jobInfo) == [value |-> JSONStringify(jobInfo), ttl |-> TTL_SECONDS]

\* the key trackJob writes
TrackKey(jobInfo) == Key(jobInfo.jobName, jobInfo.buildNumber)

\* slip: a value that is not JSON is handed back as it is
ParseJobInfo_Unchecked(data) ==
    IF data = Null THEN Null
    ELSE IF CanParse(data.value) THEN JSONParse(data.value)
    ELSE data.value

\* getJobInfo once client.get has replied with data
ParseJobInfo(data) ==
    IF data = Null THEN Null
    ELSE IF CanParse(data.value) THEN JSONParse(data.value)
    ELSE Null

\* objects handed to trackJob by a caller: the shape TriggerJobTool builds
NewJobInfo(n, b, cb, t) ==
    IF cb = Null
    THEN [jobName |-> n, buildNumber |-> b, status |-> "PENDING", timestamp |-> t]
    ELSE [jobName |-> n, buildNumber |-> b, callbackInfo |-> cb,
          status |-> "PENDING", timestamp |-> t]

\* every object a caller hands to trackJob
JobInfos ==
    {NewJobInfo(n, b, cb, t) : n \in JobNames, b \in BuildNumbers,
                               cb \in CallbackInfos \cup {Null}, t \in Clock}

\* trackJob(jobInfo) called on instance t
TrackJob(t, jobInfo) ==
    /\ Running
    /\ IF isConnected[t]
       THEN store' = [store EXCEPT ![TrackKey(jobInfo)] = SetExEntry(jobInfo)]
       ELSE UNCHANGED store
    /\ UNCHANGED <<secret, mcp, sock, api, mainPc, isConnected, req, trig>>

\* cleanupCompletedJob(jobName, buildNumber) called on instance t
CleanupCompletedJob(t, jobName, buildNumber) ==
    /\ Running
    /\ IF isConnected[t]
       THEN store' = [store EXCEPT ![Key(jobName, buildNumber)] = Null]
       ELSE UNCHANGED store
    /\ UNCHANGED <<secret, mcp, sock, api, mainPc, isConnected, req, trig>>

\* Redis deletes a key whose TTL has run out
Expire(k) ==
    /\ store[k] # Null
    /\ store[k].ttl > 0
    /\ store' = [store EXCEPT ![k] = Null]
    /\ UNCHANGED <<secret, mcp, sock, api, mainPc, isConnected, req, trig>>

\* updateJobStatus: the object it hands to trackJob
UpdatedJobInfo(jobInfo, status, details, t) ==
    [f \in DOMAIN jobInfo \cup {"status", "details", "timestamp"} |->
        IF f = "status" THEN status
        ELSE IF f = "details" THEN details
        ELSE IF f = "timestamp" THEN t
        ELSE jobInfo[f]]

\* ------------------------------------------- direct calls of the exports
\* the callers' inputs
ApiStatuses == {"SUCCESS", "FAILURE"}

ApiDetails == {[duration |-> PayloadDuration, timestamp |-> PayloadTimestamp]}

NodeEnvs == {"production", "development", "test"}

\* a value under a job key that is not the JSON of a job
Garbage == [form |-> "text"]

\* slip: trackJob does not call ensureConnection first
ApiTrackJob_NoEnsure(t, jobInfo) ==
    /\ Running
    /\ api.call.pc = "idle"
    /\ \E setOk \in BOOLEAN :
        IF setOk
        THEN /\ store' = [store EXCEPT ![TrackKey(jobInfo)] = SetExEntry(jobInfo)]
             /\ api' = [call |-> [fn |-> "trackJob", pc |-> "done", t |-> t,
                                  jobInfo |-> jobInfo, threw |-> FALSE],
                        last |-> [api.last EXCEPT ![TrackKey(jobInfo)] = jobInfo]]
        ELSE /\ UNCHANGED store
             /\ api' = [api EXCEPT !.call = [fn |-> "trackJob", pc |-> "done", t |-> t,
                                             jobInfo |-> jobInfo, threw |-> TRUE]]
    /\ UNCHANGED <<secret, mcp, sock, mainPc, isConnected, req, trig>>

\* trackJob(jobInfo) on instance t, up to the reply of client.setEx
ApiTrackJob(t, jobInfo) ==
    /\ Running
    /\ api.call.pc = "idle"
    /\ \E setOk \in BOOLEAN :
        IF isConnected[t] /\ setOk
        THEN /\ store' = [store EXCEPT ![TrackKey(jobInfo)] = SetExEntry(jobInfo)]
             /\ api' = [call |-> [fn |-> "trackJob", pc |-> "done", t |-> t,
                                  jobInfo |-> jobInfo, threw |-> FALSE],
                        last |-> [api.last EXCEPT ![TrackKey(jobInfo)] = jobInfo]]
        ELSE /\ UNCHANGED store
             /\ api' = [api EXCEPT !.call = [fn |-> "trackJob", pc |-> "done", t |-> t,
                                             jobInfo |-> jobInfo, threw |-> TRUE]]
    /\ UNCHANGED <<secret, mcp, sock, mainPc, isConnected, req, trig>>

\* getJobInfo(jobName, buildNumber) on instance t, at the reply of client.get
ApiGetJobInfo(t, jobName, buildNumber) ==
    /\ Running
    /\ api.call.pc = "idle"
    /\ \E readOk \in BOOLEAN :
        LET k == Key(jobName, buildNumber)
            result == IF isConnected[t] /\ readOk THEN ParseJobInfo(store[k]) ELSE Null
        IN api' = [api EXCEPT !.call =
                    [fn |-> "getJobInfo", pc |-> "done", t |-> t, key |-> k,
                     connected |-> isConnected[t], readOk |-> readOk,
                     result |-> result, threw |-> FALSE]]
    /\ UNCHANGED <<secret, mcp, sock, mainPc, isConnected, store, req, trig>>

\* updateJobStatus(jobName, buildNumber, status, details) on instance t, up
\* to the client.get of its getJobInfo
ApiUpdateStart(t, jobName, buildNumber, status, details) ==
    /\ Running
    /\ api.call.pc = "idle"
    /\ LET c == [fn |-> "updateJobStatus", pc |-> "read", t |-> t,
                 key |-> Key(jobName, buildNumber), status |-> status,
                 details |-> details, pending |-> Null, threw |-> FALSE,
                 wrote |-> FALSE]
       IN IF isConnected[t]
          THEN api' = [api EXCEPT !.call = c]
          ELSE api' = [api EXCEPT !.call = [c EXCEPT !.pc = "done", !.threw = TRUE]]
    /\ UNCHANGED <<secret, mcp, sock, mainPc, isConnected, store, req, trig>>

\* slip: an update of an absent key writes a fresh entry
ApiUpdateRead_Upserts ==
    LET c == api.call IN
    /\ c.fn = "updateJobStatus"
    /\ c.pc = "read"
    /\ \E readOk \in BOOLEAN, now \in Clock :
        LET jobInfo == IF readOk THEN ParseJobInfo(store[c.key]) ELSE Null
            base == IF jobInfo = Null
                    THEN [jobName |-> c.key[2], buildNumber |-> c.key[3]]
                    ELSE jobInfo
            updated == UpdatedJobInfo(base, c.status, c.details, now)
        IN IF ~isConnected[c.t]
           THEN api' = [api EXCEPT !.call = [c EXCEPT !.pc = "done", !.threw = TRUE]]
           ELSE api' = [api EXCEPT !.call = [c EXCEPT !.pc = "write", !.pending = updated]]
    /\ UNCHANGED <<secret, mcp, sock, mainPc, isConnected, store, req, trig>>

\* client.get replies inside updateJobStatus: without a record it warns and
\* returns; with one it calls trackJob, which runs up to its client.setEx
ApiUpdateRead ==
    LET c == api.call IN
    /\ c.fn = "updateJobStatus"
    /\ c.pc = "read"
    /\ \E readOk \in BOOLEAN, now \in Clock :
        LET jobInfo == IF readOk THEN ParseJobInfo(store[c.key]) ELSE Null
            updated == UpdatedJobInfo(jobInfo, c.status, c.details, now)
        IN IF jobInfo = Null
           THEN api' = [api EXCEPT !.call = [c EXCEPT !.pc = "done"]]
           ELSE IF ~isConnected[c.t]
           THEN api' = [api EXCEPT !.call = [c EXCEPT !.pc = "done", !.threw = TRUE]]
           ELSE api' = [api EXCEPT !.call = [c EXCEPT !.pc = "write", !.pending = updated]]
    /\ UNCHANGED <<secret, mcp, sock, mainPc, isConnected, store, req, trig>>

\* slip: the re-put uses client.set, which leaves the key without expiry
ApiUpdateWrite_Persist ==
    LET c == api.call
        k == TrackKey(c.pending)
    IN
    /\ c.fn = "updateJobStatus"
    /\ c.pc = "write"
    /\ \/ /\ store' = [store EXCEPT ![k] = [value |-> JSONStringify(c.pending), ttl |-> -1]]
          /\ api' = [call |-> [c EXCEPT !.pc = "done", !.wrote = TRUE],
                     last |-> [api.last EXCEPT ![k] = c.pending]]
       \/ /\ UNCHANGED store
          /\ api' = [api EXCEPT !.call = [c EXCEPT !.pc = "done", !.threw = TRUE]]
    /\ UNCHANGED <<secret, mcp, sock, mainPc, isConnected, req, trig>>

\* client.setEx settles inside updateJobStatus
ApiUpdateWrite ==
    LET c == api.call
        k == TrackKey(c.pending)
    IN
    /\ c.fn = "updateJobStatus"
    /\ c.pc = "write"
    /\ \/ /\ store' = [store EXCEPT ![k] = SetExEntry(c.pending)]
          /\ api' = [call |-> [c EXCEPT !.pc = "done", !.wrote = TRUE],
                     last |-> [api.last EXCEPT ![k] = c.pending]]
       \/ /\ UNCHANGED store
          /\ api' = [api EXCEPT !.call = [c EXCEPT !.pc = "done", !.threw = TRUE]]
    /\ UNCHANGED <<secret, mcp, sock, mainPc, isConnected, req, trig>>

\* cleanupCompletedJob(jobName, buildNumber) on instance t, at the reply of
\* client.del; its catch block only logs
ApiCleanupCompletedJob(t, jobName, buildNumber) ==
    LET k == Key(jobName, buildNumber) IN
    /\ Running
    /\ api.call.pc = "idle"
    /\ \E delOk \in BOOLEAN :
        LET c == [fn |-> "cleanupCompletedJob", pc |-> "done", t |-> t, key |-> k,
                  threw |-> FALSE]
        IN IF isConnected[t] /\ delOk
           THEN /\ store' = [store EXCEPT ![k] = Null]
                /\ api' = [call |-> c, last |-> [api.last EXCEPT ![k] = Null]]
           ELSE /\ UNCHANGED store
                /\ api' = [api EXCEPT !.call = c]
    /\ UNCHANGED <<secret, mcp, sock, mainPc, isConnected, req, trig>>

\* Redis deletes a key whose TTL has run out, between two calls or during one
ApiExpire(k) ==
    /\ store[k] # Null
    /\ store[k].ttl > 0
    /\ store' = [store EXCEPT ![k] = Null]
    /\ api' = [api EXCEPT !.last[k] = Null]
    /\ UNCHANGED <<secret, mcp, sock, mainPc, isConnected, req, trig>>

\* another Redis client leaves a value under a job key that JSON.parse rejects
ApiForeignWrite(k) ==
    /\ Running
    /\ IF store[k] = Null THEN TRUE ELSE store[k].value # Garbage
    /\ store' = [store EXCEPT ![k] = [value |-> Garbage, ttl |-> TTL_SECONDS]]
    /\ api' = [api EXCEPT !.last[k] = Null]
    /\ UNCHANGED <<secret, mcp, sock, mainPc, isConnected, req, trig>>

\* slip: in production the bypass only logs
webhookAuthBypass_Warns(nodeEnv) == [threw |-> FALSE, nextCalls |-> 1]

\* webhookAuthBypass(req, res, next) under config.app.nodeEnv = nodeEnv
webhookAuthBypass(nodeEnv) ==
    IF nodeEnv = "production"
    THEN [threw |-> TRUE, nextCalls |-> 0]
    ELSE [threw |-> FALSE, nextCalls |-> 1]

\* a caller invokes webhookAuthBypass
ApiBypass(nodeEnv) ==
    /\ api.call.pc = "idle"
    /\ LET out == webhookAuthBypass(nodeEnv)
       IN api' = [api EXCEPT !.call =
                    [fn |-> "webhookAuthBypass", pc |-> "done", nodeEnv |-> nodeEnv,
                     threw |-> out.threw, nextCalls |-> out.nextCalls]]
    /\ UNCHANGED <<secret, mcp, sock, mainPc, isConnected, store, req, trig>>

\* a caller invokes the reconnectStrategy option
ApiReconnectStrategy(retries) ==
    /\ api.call.pc = "idle"
    /\ api' = [api EXCEPT !.call =
                [fn |-> "reconnectStrategy", pc |-> "done", retries |-> retries,
                 result |-> reconnectStrategy(retries)]]
    /\ UNCHANGED <<secret, mcp, sock, mainPc, isConnected, store, req, trig>>

\* the caller has the outcome; the next call may start
ApiReturn ==
    /\ api.call.pc = "done"
    /\ api' = [api EXCEPT !.call = IdleCall]
    /\ UNCHANGED <<secret, mcp, sock, mainPc, isConnected, store, req, trig>>

\* registry.registerTool(toolName, schema, implementation) is called
ApiRegisterTool(toolName, schema, implementation) ==
    /\ api.call.pc = "idle"
    /\ LET r == registerTool(mcp.tools, toolName, schema, implementation) IN
       /\ mcp' = [mcp EXCEPT !.tools = r.tools]
       /\ api' = [api EXCEPT !.call =
                    [fn |-> "registerTool", pc |-> "done", name |-> toolName,
                     schema |-> schema, implementation |-> implementation,
                     threw |-> r.threw, size |-> Size(mcp.tools)]]
    /\ UNCHANGED <<secret, sock, mainPc, isConnected, store, req, trig>>

\* registry.unregisterTool(toolName) is called
ApiUnregisterTool(toolName) ==
    /\ api.call.pc = "idle"
    /\ LET r == unregisterTool(mcp.tools, toolName) IN
       /\ mcp' = [mcp EXCEPT !.tools = r.tools]
       /\ api' = [api EXCEPT !.call =
                    [fn |-> "unregisterTool", pc |-> "done", name |-> toolName,
                     existed |-> r.existed]]
    /\ UNCHANGED <<secret, sock, mainPc, isConnected, store, req, trig>>

\* registry.clear() is called
ApiClear ==
    /\ api.call.pc = "idle"
    /\ mcp' = [mcp EXCEPT !.tools = clear(mcp.tools)]
    /\ api' = [api EXCEPT !.call = [fn |-> "clear", pc |-> "done"]]
    /\ UNCHANGED <<secret, sock, mainPc, isConnected, store, req, trig>>

\* mcpService.initialize() is called
ApiInitialize ==
    /\ api.call.pc = "idle"
    /\ mcp.isInitialized \/ mcp.installs < MaxInstalls
    /\ mcp' = initialize(mcp)
    /\ api' = [api EXCEPT !.call =
                [fn |-> "initialize", pc |-> "done", before |-> mcp]]
    /\ UNCHANGED <<secret, sock, mainPc, isConnected, store, req, trig>>

\* mcpService.stop() is called
ApiStop ==
    /\ api.call.pc = "idle"
    /\ mcp' = stop(mcp)
    /\ api' = [api EXCEPT !.call = [fn |-> "stop", pc |-> "done", before |-> mcp]]
    /\ UNCHANGED <<secret, sock, mainPc, isConnected, store, req, trig>>

\* --------------------------------------------------------- TriggerJobTool
TriggerArgs ==
    {[jobName |-> n] : n \in JobNames}
    \cup {[jobName |-> n, callbackInfo |-> cb] : n \in JobNames, cb \in CallbackInfos}

JenkinsErrors == {MkError("Error", <<"Jenkins", "error">>),
                  MkError("Error", <<"Request", "failed", "with", "status code", "404">>)}

PollTimeout(queueId) ==
    MkError("Error", <<"Timeout", "waiting", "for", "build", "number",
                       "for", "queue", "item", ToString(queueId)>>)

\* the content execute() returns from its catch block
TriggerFailure(error) ==
    LET h == handleError(error) IN
    [error |-> TRUE, message |-> h.message, errorType |-> h.class,
     details |-> formatMCPError(h).error.details]

TriggerSuccess(jobName, buildNumber, queueId) ==
    [buildNumber |-> buildNumber, jobName |-> jobName,
     status |-> "TRIGGERED", queueId |-> queueId]

\* execute(args) up to the build request of jenkinsClient.triggerJob
TriggerExecute(args) ==
    /\ Running
    /\ trig.pc = "idle"
    /\ trig' = [IdleTrig EXCEPT !.pc = "build", !.args = args]
    /\ UNCHANGED <<secret, mcp, sock, api, mainPc, isConnected, store, req>>

\* slip: the entry is written before the build request is answered, so it
\* is there when the request is rejected
TriggerBuildReply_TracksFirst ==
    /\ trig.pc = "build"
    /\ \/ /\ trig' = [trig EXCEPT !.pc = "wait", !.queueId = QueueId]
          /\ UNCHANGED store
       \/ \E e \in JenkinsErrors, n \in BuildNumbers, t \in Clock :
            /\ trig' = [trig EXCEPT !.pc = "done", !.result = TriggerFailure(e)]
            /\ store' = [store EXCEPT ![Key(trig.args.jobName, n)] =
                            SetExEntry(NewJobInfo(trig.args.jobName, n, Null, t))]
    /\ UNCHANGED <<secret, mcp, sock, api, mainPc, isConnected, req>>

\* client.job.build replies with the queue id, or rejects
TriggerBuildReply ==
    /\ trig.pc = "build"
    /\ \/ trig' = [trig EXCEPT !.pc = "wait", !.queueId = QueueId]
       \/ \E e \in JenkinsErrors :
            trig' = [trig EXCEPT !.pc = "done", !.result = TriggerFailure(e)]
    /\ UNCHANGED <<secret, mcp, sock, api, mainPc, isConnected, store, req>>

\* waitForBuildNumber, head of the loop: Date.now() - startTime is
\* trig.elapsed; below maxWait it polls the queue item, else it throws
TriggerPollStart ==
    /\ trig.pc = "wait"
    /\ IF trig.elapsed < MAX_WAIT
       THEN trig' = [trig EXCEPT !.pc = "poll"]
       ELSE trig' = [trig EXCEPT !.pc = "done",
                                 !.result = TriggerFailure(PollTimeout(trig.queueId))]
    /\ UNCHANGED <<secret, mcp, sock, api, mainPc, isConnected, store, req>>

\* slip: the pause does not count towards the deadline
TriggerSleep_NoClock ==
    /\ trig.pc = "sleep"
    /\ trig' = [trig EXCEPT !.pc = "wait"]
    /\ UNCHANGED <<secret, mcp, sock, api, mainPc, isConnected, store, req>>

\* setTimeout(resolve, 1000) fires
TriggerSleep ==
    /\ trig.pc = "sleep"
    /\ trig' = [trig EXCEPT !.pc = "wait", !.elapsed = @ + POLL_INTERVAL]
    /\ UNCHANGED <<secret, mcp, sock, api, mainPc, isConnected, store, req>>

\* the CI server takes the queue item off its queue and starts build n; the
\* item shows the executable from now on
CiAssign ==
    /\ trig.pc \in {"wait", "poll", "sleep"}
    /\ trig.assigned = 0
    /\ \E n \in BuildNumbers : trig' = [trig EXCEPT !.assigned = n]
    /\ UNCHANGED <<secret, mcp, sock, api, mainPc, isConnected, store, req>>

\* client.queue.item replies after lat milliseconds: no executable yet or an
\* error, and the loop pauses; or the queue item exposes build n, and
\* execute() tracks the job when callbackInfo is given
TriggerPollReply ==
    /\ trig.pc = "poll"
    /\ \/ /\ \E lat \in {0, POLL_INTERVAL} :
                trig' = [trig EXCEPT !.pc = "sleep", !.elapsed = @ + lat]
          /\ UNCHANGED store
       \/ \E n \in BuildNumbers \cap {trig.assigned}, t \in Clock :
            LET jobInfo == NewJobInfo(trig.args.jobName, n,
                                      IF Has(trig.args, "callbackInfo")
                                      THEN trig.args.callbackInfo ELSE Null, t)
                ok == TriggerSuccess(trig.args.jobName, n, trig.queueId)
            IN
            IF ~Has(trig.args, "callbackInfo")
            THEN /\ trig' = [trig EXCEPT !.pc = "done", !.buildNumber = n, !.result = ok]
                 /\ UNCHANGED store
            ELSE IF ~isConnected["tool"]
            THEN /\ trig' = [trig EXCEPT !.pc = "done", !.buildNumber = n,
                                         !.result = TriggerFailure(NotConnectedError)]
                 /\ UNCHANGED store
            ELSE /\ trig' = [trig EXCEPT !.pc = "done", !.buildNumber = n,
                                         !.result = ok, !.tracked = TRUE]
                 /\ store' = [store EXCEPT ![TrackKey(jobInfo)] = SetExEntry(jobInfo)]
    /\ UNCHANGED <<secret, mcp, sock, api, mainPc, isConnected, req>>

\* the caller has the result; the tool serves the next call
TriggerReturn ==
    /\ trig.pc = "done"
    /\ trig' = IdleTrig
    /\ UNCHANGED <<secret, mcp, sock, api, mainPc, isConnected, store, req>>

\* ------------------------------------------------ MCP tools and CallTool
\* params.arguments of a request: a JavaScript value by its typeof and its
\* truthiness (undefined; {}; null; 'text'; ''; 0; true)
Undefined == [type |-> "undefined", truthy |-> FALSE]

JsNull == [type |-> "object", truthy |-> FALSE]

ArgValues ==
    {Undefined, JsNull,
     [type |-> "object", truthy |-> TRUE],
     [type |-> "string", truthy |-> TRUE],
     [type |-> "string", truthy |-> FALSE],
     [type |-> "number", truthy |-> FALSE],
     [type |-> "boolean", truthy |-> TRUE]}

\* what is thrown inside the try block of execute(): nothing, the error of
\* validateInput, an error of the Jenkins client, of the tracker, or an error
\* object that carries a code property (a number, or a string as Node sets)
NoFault == [class |-> "none"]

CodedError ==
    [class |-> "Error", message |-> <<"Existing", "MCP", "error">>,
     code |-> [num |-> TRUE, value |-> -32602]]

SocketError ==
    [class |-> "Error", message |-> <<"connect", "ECONNREFUSED">>,
     code |-> [num |-> FALSE, value |-> 0]]

ToolFaults ==
    {NoFault, ValidationFailed, NotConnectedError, CodedError, SocketError,
     MkError("JenkinsError", <<"Jenkins", "API", "failed">>),
     MkError("Error", <<"Jenkins", "error">>)}

\* only TriggerJobTool holds a tracker
CanFail(tool, fault) == fault = NotConnectedError => tool = "trigger_jenkins_job"

\* execute(args) of the tool registered under the name, with fault thrown in
\* its try block: TriggerJobTool and GetJobParametersTool return the error
\* content, JobStatusTool and ListJobsTool rethrow
execute(tool, fault) ==
    IF fault = NoFault
    THEN [threw |-> FALSE, content |-> [tool |-> tool]]
    ELSE IF tool \in {"trigger_jenkins_job", "get_job_parameters"}
    THEN [threw |-> FALSE, content |-> TriggerFailure(fault)]
    ELSE [threw |-> TRUE, error |-> fault]

\* AppError.toJSON()
toJSON(appError) ==
    [name |-> appError.class, message |-> appError.message,
     errorType |-> ErrorType(appError.class)]

createMCPErrorFromAppError(code, appError) ==
    [class |-> "Error", message |-> appError.message,
     code |-> [num |-> TRUE, value |-> code], data |-> toJSON(appError)]

\* error && typeof error.code === 'number'
isMCPError(error) == Has(error, "code") /\ error.code.num

\* the catch block of the CallTool handler: what it throws for error
CallToolCatch(error) ==
    IF isMCPError(error) THEN error
    ELSE createMCPErrorFromAppError(-32603, handleError(error))

UnknownTool(name) == MkError("MCPError", <<"Unknown", "tool:", name>>)

InvalidArguments == MkError("MCPError", <<"Tool", "arguments", "must", "be", "an", "object">>)

\* the CallTool request handler for {name, arguments: args}, with fault thrown
\* inside the tool
CallTool(name, args, fault) ==
    IF name \notin ToolNames
    THEN [threw |-> TRUE, executed |-> FALSE,
          error |-> CallToolCatch(createMCPErrorFromAppError(-32601, UnknownTool(name)))]
    ELSE IF args.truthy /\ args.type # "object"
    THEN [threw |-> TRUE, executed |-> FALSE,
          error |-> CallToolCatch(createMCPErrorFromAppError(-32602, InvalidArguments))]
    ELSE LET out == execute(name, fault)
         IN IF out.threw
            THEN [threw |-> TRUE, executed |-> TRUE, tool |-> out,
                  error |-> CallToolCatch(out.error)]
            ELSE [threw |-> FALSE, executed |-> TRUE, tool |-> out,
                  result |-> out.content]

\* a client sends a CallTool request
ApiCallTool(name, args, fault) ==
    /\ Running
    /\ api.call.pc = "idle"
    /\ CanFail(name, fault)
    /\ api' = [api EXCEPT !.call =
                [fn |-> "CallTool", pc |-> "done", name |-> name, args |-> args,
                 fault |-> fault, out |-> CallTool(name, args, fault)]]
    /\ UNCHANGED <<secret, mcp, sock, mainPc, isConnected, store, req, trig>>

\* the CallTool handler installed by setupMessageHandlers, looking the name
\* up in the registry as it stands
CallToolRequest(tools, name, args, fault) ==
    IF tools[name] = Null
    THEN [threw |-> TRUE, executed |-> FALSE,
          error |-> CallToolCatch(createMCPErrorFromAppError(-32601, UnknownTool(name)))]
    ELSE CallTool(name, args, fault)

\* a client sends a CallTool request to a server whose handlers are installed
ApiCallToolRequest(name, args, fault) ==
    /\ mcp.installs > 0
    /\ api.call.pc = "idle"
    /\ CanFail(name, fault)
    /\ api' = [api EXCEPT !.call =
                [fn |-> "CallToolRequest", pc |-> "done", name |-> name,
                 args |-> args, fault |-> fault,
                 out |-> CallToolRequest(mcp.tools, name, args, fault)]]
    /\ UNCHANGED <<secret, mcp, sock, mainPc, isConnected, store, req, trig>>

\* ---------------------------------------------------- JenkinsClientService
\* a string is the sequence of its characters
ToLowerChar(c) ==
    CASE c = "A" -> "a"
      [] c = "P" -> "p"
      [] c = "I" -> "i"
      [] OTHER -> c

\* String.prototype.toLowerCase
toLowerCase(str) == [i \in 1..Len(str) |-> ToLowerChar(str[i])]

\* String.prototype.includes
StringIncludes(str, sub) ==
    \E i \in 0..(Len(str) - Len(sub)) : SubSeq(str, i + 1, i + Len(sub)) = sub

\* the jobs client.job.list() may return
ServerJobNames == {<<"A", "p", "i">>, <<"w", "e", "b">>, <<"a", "p">>}

ServerJobs ==
    {[name |-> n, url |-> Url(<<"jenkins", "job", n>>), color |-> c,
      buildable |-> (c # "disabled"), _class |-> "FreeStyleProject"] :
        n \in ServerJobNames, c \in {"blue", "disabled"}}

JobLists == UNION {[1..n -> ServerJobs] : n \in 0..MaxJobs}

\* an optional argument: left out, or given with a value
Omitted == [given |-> FALSE]

Given(v) == [given |-> TRUE, value |-> v]

Filters == {Omitted, Given(<<>>), Given(<<"a", "p", "i">>), Given(<<"A", "P">>),
            Given(<<"e">>), Given(<<"x">>)}

IncludeDisabledArgs == {Omitted, Given(TRUE), Given(FALSE)}

\* the object listJobs returns for a job
JobInfoOf(job) ==
    [name |-> job.name, url |-> job.url, color |-> job.color, buildable |-> job.buildable]

NotDisabled(job) == job.color # "disabled"

\* slip: the filter is compared without lower-casing
listJobs_CaseSensitive(jobs, filter, includeDisabledArg) ==
    LET includeDisabled == IF includeDisabledArg.given THEN includeDisabledArg.value ELSE FALSE
        enabled == IF ~includeDisabled THEN SelectSeq(jobs, NotDisabled) ELSE jobs
        Matches(job) == StringIncludes(job.name, filter.value)
        filteredJobs == IF filter.given /\ filter.value # <<>>
                        THEN SelectSeq(enabled, Matches)
                        ELSE enabled
    IN [i \in 1..Len(filteredJobs) |-> JobInfoOf(filteredJobs[i])]

\* listJobs(filter, includeDisabled) once client.job.list() has resolved
listJobs(jobs, filter, includeDisabledArg) ==
    LET includeDisabled == IF includeDisabledArg.given THEN includeDisabledArg.value ELSE FALSE
        enabled == IF ~includeDisabled THEN SelectSeq(jobs, NotDisabled) ELSE jobs
        Matches(job) == StringIncludes(toLowerCase(job.name), toLowerCase(filter.value))
        filteredJobs == IF filter.given /\ filter.value # <<>>
                        THEN SelectSeq(enabled, Matches)
                        ELSE enabled
    IN [i \in 1..Len(filteredJobs) |-> JobInfoOf(filteredJobs[i])]

\* a caller invokes listJobs
ApiListJobs(jobs, filter, includeDisabledArg) ==
    /\ api.call.pc = "idle"
    /\ api' = [api EXCEPT !.call =
                [fn |-> "listJobs", pc |-> "done", jobs |-> jobs, filter |-> filter,
                 includeDisabled |-> includeDisabledArg,
                 result |-> listJobs(jobs, filter, includeDisabledArg)]]
    /\ UNCHANGED <<secret, mcp, sock, mainPc, isConnected, store, req, trig>>

\* what client.build.get() reports: result is null until the build has
\* ended, building tells whether it runs
BuildResults == {Null} \cup {[text |-> r] : r \in TerminalStatuses \cup {"NOT_BUILT"}}

ServerBuilds ==
    {[result |-> r, building |-> b, duration |-> PayloadDuration,
      timestamp |-> PayloadTimestamp] : r \in BuildResults, b \in BOOLEAN}

\* slip: RUNNING and PENDING are the wrong way round
BuildStatus_Swapped(build) ==
    IF build.result # Null THEN build.result.text
    ELSE IF build.building THEN "PENDING"
    ELSE "RUNNING"

\* build.result || (build.building ? 'RUNNING' : 'PENDING')
BuildStatus(build) ==
    IF build.result # Null THEN build.result.text
    ELSE IF build.building THEN "RUNNING"
    ELSE "PENDING"

\* getBuildStatus(jobName, buildNumber) once client.build.get() has resolved
getBuildStatus(jobName, buildNumber, build) ==
    [jobName |-> jobName, buildNumber |-> buildNumber, status |-> BuildStatus(build),
     duration |-> build.duration, timestamp |-> build.timestamp]

\* a caller invokes getBuildStatus
ApiGetBuildStatus(jobName, buildNumber, build) ==
    /\ api.call.pc = "idle"
    /\ api' = [api EXCEPT !.call =
                [fn |-> "getBuildStatus", pc |-> "done", build |-> build,
                 result |-> getBuildStatus(jobName, buildNumber, build)]]
    /\ UNCHANGED <<secret, mcp, sock, mainPc, isConnected, store, req, trig>>

\* --------------------------------------------------------- WebhookHandler
ReqKey(q) == Key(q.body.name, q.body.build.number)

SuccessResponse(payload) ==
    [status |-> 200,
     body |-> [success |-> TRUE, message |-> <<"Webhook", "processed", "successfully">>,
               jobName |-> payload.name, buildNumber |-> payload.build.number,
               phase |-> payload.build.phase]]

\* the catch block of handleJenkinsWebhook: status for the handled error
ErrorStatus(handled) == IF handled.class = "WebhookError" THEN 400 ELSE 500

ErrorResponse(error) ==
    LET h == handleError(error) IN
    [status |-> ErrorStatus(h), body |-> formatMCPError(h)]

\* slip: the callbackInfo test is left out of the guard
HasCallback_AnyRecord(jobInfo) == jobInfo # Null

\* slip: the null test of the guard is inverted
HasCallback_NullPasses(jobInfo) == jobInfo = Null \/ Has(jobInfo, "callbackInfo")

\* processCompletedBuild goes on to notify for this lookup result
HasCallback(jobInfo) == jobInfo # Null /\ Has(jobInfo, "callbackInfo")

\* slip: the status is taken from the stored record, not from the webhook
Notification_StoredStatus(payload, jobInfo) ==
    LET base == [jobName |-> payload.name, buildNumber |-> payload.build.number,
                 status |-> jobInfo.status, buildUrl |-> payload.build.full_url]
    IN IF Has(jobInfo, "callbackInfo")
       THEN [f \in DOMAIN base \cup {"callbackInfo"} |->
                IF f = "callbackInfo" THEN jobInfo.callbackInfo ELSE base[f]]
       ELSE base

\* the SlackNotificationPayload processCompletedBuild builds
Notification(payload, jobInfo) ==
    LET base == [jobName |-> payload.name, buildNumber |-> payload.build.number,
                 status |-> payload.build.status, buildUrl |-> payload.build.full_url]
    IN IF Has(jobInfo, "callbackInfo")
       THEN [f \in DOMAIN base \cup {"callbackInfo"} |->
                IF f = "callbackInfo" THEN jobInfo.callbackInfo ELSE base[f]]
       ELSE base

\* slip: the catch block rethrows what axios.post rejected with
NotificationThrows_Passthrough(e) == e

\* sendSlackNotification: what it throws when axios.post rejected with e
NotificationThrows(e) ==
    MkError("WebhookError",
            <<"Failed", "to", "send", "Slack", "notification:">> \o e.message)

\* the details processCompletedBuild passes to updateJobStatus
UpdateDetails(build, t) ==
    LET ts == IF Has(build, "timestamp") /\ build.timestamp # 0
              THEN build.timestamp ELSE t
    IN IF Has(build, "duration")
       THEN [duration |-> build.duration, timestamp |-> ts]
       ELSE [timestamp |-> ts]

\* res.status(..).json(..): one more response goes out on the connection
Respond(r, q, response) ==
    req' = [req EXCEPT ![r] = [q EXCEPT !.pc = "done", !.resp = response,
                                        !.sent = q.sent + 1]]

\* slip: the phase is not looked at
IsCompletedBuild_AnyPhase(payload) == Has(payload.build, "status")

\* handleJenkinsWebhook goes on to processCompletedBuild
IsCompletedBuild(payload) ==
    payload.build.phase = "COMPLETED" /\ Has(payload.build, "status")

\* slip: webhookAuth answers 401 and calls next() all the same
WebhookReceive_RespondsAndContinues(r, raw, sig) ==
    /\ mainPc = "listening"
    /\ req[r].pc = "idle"
    /\ LET payload == JSONParse(raw)
           auth == webhookAuth(secret, sig, payload)
           q0 == [IdleReq EXCEPT !.raw = raw, !.sig = sig, !.body = payload,
                                 !.resp = auth,
                                 !.sent = IF auth # Null THEN 1 ELSE 0]
           v == validateInput(payload)
           q1 == [q0 EXCEPT !.calls.validate = 1]
       IN
       IF ~v.ok THEN Respond(r, q1, ErrorResponse(v.error))
       ELSE IF ~IsCompletedBuild(v.value)
       THEN Respond(r, q1, SuccessResponse(v.value))
       ELSE LET q2 == [q1 EXCEPT !.calls.lookup = 1]
            IN IF ~isConnected["webhook"]
               THEN Respond(r, [q2 EXCEPT !.readOk = FALSE], SuccessResponse(v.value))
               ELSE req' = [req EXCEPT ![r] = [q2 EXCEPT !.pc = "lookup"]]
    /\ UNCHANGED <<secret, mcp, sock, api, mainPc, isConnected, store, trig>>

\* POST /webhook/jenkins arrives with body text raw: express.json() sets
\* req.body, then webhookAuth, then handleJenkinsWebhook up to its first store
\* command
WebhookReceive(r, raw, sig) ==
    /\ mainPc = "listening"
    /\ req[r].pc = "idle"
    /\ LET payload == JSONParse(raw)
           q0 == [IdleReq EXCEPT !.raw = raw, !.sig = sig, !.body = payload]
           auth == webhookAuth(secret, sig, payload)
           v == validateInput(payload)
           q1 == [q0 EXCEPT !.calls.validate = 1]
       IN
       IF auth # Null THEN Respond(r, q0, auth)
       ELSE IF ~v.ok THEN Respond(r, q1, ErrorResponse(v.error))
       ELSE IF ~IsCompletedBuild(v.value)
       THEN Respond(r, q1, SuccessResponse(v.value))
       ELSE LET q2 == [q1 EXCEPT !.calls.lookup = 1]
            IN IF ~isConnected["webhook"]
               THEN Respond(r, [q2 EXCEPT !.readOk = FALSE], SuccessResponse(v.value))
               ELSE req' = [req EXCEPT ![r] = [q2 EXCEPT !.pc = "lookup"]]
    /\ UNCHANGED <<secret, mcp, sock, api, mainPc, isConnected, store, trig>>

\* slip: getJobInfo rethrows a failed read instead of returning null
WebhookLookup_ReadThrows(r) ==
    LET q == req[r] IN
    /\ q.pc = "lookup"
    /\ \E readOk \in BOOLEAN :
        LET jobInfo == IF readOk THEN ParseJobInfo(store[ReqKey(q)]) ELSE Null
        IN
        IF ~readOk
        THEN \E e \in StoreErrors :
                Respond(r, [q EXCEPT !.readOk = readOk], ErrorResponse(e))
        ELSE IF ~HasCallback(jobInfo)
        THEN Respond(r, [q EXCEPT !.readOk = readOk], SuccessResponse(q.body))
        ELSE req' = [req EXCEPT ![r] =
                [q EXCEPT !.pc = "notify", !.calls.post = q.calls.post + 1,
                           !.post = Notification(q.body, jobInfo)]]
    /\ UNCHANGED <<secret, mcp, sock, api, mainPc, isConnected, store, trig>>

\* client.get replies to getJobInfo; processCompletedBuild returns, or starts
\* the POST of sendSlackNotification
WebhookLookup(r) ==
    LET q == req[r] IN
    /\ q.pc = "lookup"
    /\ \E readOk \in BOOLEAN :
        LET jobInfo == IF readOk THEN ParseJobInfo(store[ReqKey(q)]) ELSE Null
        IN
        IF ~HasCallback(jobInfo)
        THEN Respond(r, [q EXCEPT !.readOk = readOk], SuccessResponse(q.body))
        ELSE req' = [req EXCEPT ![r] =
                [q EXCEPT !.pc = "notify", !.calls.post = q.calls.post + 1,
                           !.post = Notification(q.body, jobInfo)]]
    /\ UNCHANGED <<secret, mcp, sock, api, mainPc, isConnected, store, trig>>

\* slip: sendSlackNotification logs the failure and does not rethrow
WebhookNotifyReply_Swallowed(r) ==
    LET q == req[r] IN
    /\ q.pc = "notify"
    /\ \E postOk \in BOOLEAN :
          LET q1 == [q EXCEPT !.postOk = postOk, !.calls.update = 1] IN
          IF ~isConnected["webhook"]
          THEN Respond(r, q1, ErrorResponse(NotConnectedError))
          ELSE req' = [req EXCEPT ![r] = [q1 EXCEPT !.pc = "updRead"]]
    /\ UNCHANGED <<secret, mcp, sock, api, mainPc, isConnected, store, trig>>

\* axios.post settles; on success processCompletedBuild calls updateJobStatus,
\* which runs up to the client.get of its getJobInfo
WebhookNotifyReply(r) ==
    LET q == req[r] IN
    /\ q.pc = "notify"
    /\ \/ \E e \in PostErrors :
            Respond(r, q, ErrorResponse(NotificationThrows(e)))
       \/ LET q1 == [q EXCEPT !.postOk = TRUE, !.calls.update = 1] IN
          IF ~isConnected["webhook"]
          THEN Respond(r, q1, ErrorResponse(NotConnectedError))
          ELSE req' = [req EXCEPT ![r] = [q1 EXCEPT !.pc = "updRead"]]
    /\ UNCHANGED <<secret, mcp, sock, api, mainPc, isConnected, store, trig>>

\* client.get replies inside updateJobStatus; with a record it calls trackJob,
\* which runs up to its client.setEx
WebhookUpdateRead(r) ==
    LET q == req[r] IN
    /\ q.pc = "updRead"
    /\ \E readOk \in BOOLEAN, t \in Clock :
        LET jobInfo == IF readOk THEN ParseJobInfo(store[ReqKey(q)]) ELSE Null
            updated == UpdatedJobInfo(jobInfo, q.body.build.status,
                                      UpdateDetails(q.body.build, t), t)
        IN
        IF jobInfo = Null
        THEN Respond(r, q, SuccessResponse(q.body))
        ELSE IF ~isConnected["webhook"]
        THEN Respond(r, q, ErrorResponse(NotConnectedError))
        ELSE req' = [req EXCEPT ![r] =
                [q EXCEPT !.pc = "updWrite", !.pending = updated, !.calls.setEx = 1]]
    /\ UNCHANGED <<secret, mcp, sock, api, mainPc, isConnected, store, trig>>

\* slip: the entry is cleaned up after every completed build
AfterUpdate_Retires(st, k, jobInfo) == [st EXCEPT ![k] = Null]

\* what processCompletedBuild does to the store once updateJobStatus has
\* written jobInfo under key k
AfterUpdate(st, k, jobInfo) == [st EXCEPT ![k] = SetExEntry(jobInfo)]

\* client.setEx settles; handleJenkinsWebhook sends its response
WebhookUpdateWrite(r) ==
    LET q == req[r]
        k == TrackKey(q.pending)
    IN
    /\ q.pc = "updWrite"
    /\ \/ /\ store' = AfterUpdate(store, k, q.pending)
          /\ Respond(r, q, SuccessResponse(q.body))
       \/ /\ \E e \in StoreErrors : Respond(r, q, ErrorResponse(e))
          /\ UNCHANGED store
    /\ UNCHANGED <<secret, mcp, sock, api, mainPc, isConnected, trig>>

\* the response has gone out; the slot serves the next request
WebhookClose(r) ==
    /\ req[r].pc = "done"
    /\ req' = [req EXCEPT ![r] = IdleReq]
    /\ UNCHANGED <<secret, mcp, sock, api, mainPc, isConnected, store, trig>>

\* ------------------------------------------------------------ specification
\* the connection the webhook traffic below arrives on
Ingress == CHOOSE r \in ReqIds : \A x \in ReqIds : r <= x

\* the webhook server with a tracker that callers write to, fed signed,
\* well-formed requests one at a time
Next ==
    \/ MainInitializeMCP
    \/ MainInitializeTracker
    \/ MainStartWebhook
    \/ \E t \in Trackers : ClientError(t)
    \/ \E t \in Trackers : ClientDisconnect(t)
    \/ \E t \in Trackers : ClientConnect(t)
    \/ \E t \in Trackers, jobInfo \in JobInfos : TrackJob(t, jobInfo)
    \/ \E t \in Trackers, n \in JobNames, b \in BuildNumbers :
          CleanupCompletedJob(t, n, b)
    \/ \E k \in Keys : Expire(k)
    \/ \E d \in SignedDeliveries : WebhookReceive(Ingress, d.raw, d.sig)
    \/ WebhookLookup(Ingress)
    \/ WebhookNotifyReply(Ingress)
    \/ WebhookUpdateRead(Ingress)
    \/ WebhookUpdateWrite(Ingress)
    \/ WebhookClose(Ingress)

Spec == Init /\ [][Next]_vars

\* the MCP trigger tool beside the tracker, without webhook traffic
NextTrigger ==
    \/ MainInitializeMCP
    \/ MainInitializeTracker
    \/ MainStartWebhook
    \/ \E t \in Trackers : ClientError(t)
    \/ \E t \in Trackers : ClientDisconnect(t)
    \/ \E t \in Trackers : ClientConnect(t)
    \/ \E t \in Trackers, jobInfo \in JobInfos : TrackJob(t, jobInfo)
    \/ \E t \in Trackers, n \in JobNames, b \in BuildNumbers :
          CleanupCompletedJob(t, n, b)
    \/ \E k \in Keys : Expire(k)
    \/ \E args \in TriggerArgs : TriggerExecute(args)
    \/ TriggerBuildReply
    \/ TriggerPollStart
    \/ CiAssign
    \/ TriggerPollReply
    \/ TriggerSleep
    \/ TriggerReturn

SpecTrigger == Init /\ [][NextTrigger]_vars

\* the same, with every pending promise of the trigger settling in the end
SpecTriggerFair ==
    /\ SpecTrigger
    /\ WF_vars(TriggerPollStart)
    /\ WF_vars(TriggerPollReply)
    /\ WF_vars(TriggerSleep)

\* one connection to the webhook endpoint, fed every payload and every header
NextIngress ==
    \/ MainInitializeMCP
    \/ MainInitializeTracker
    \/ MainStartWebhook
    \/ \E t \in Trackers : ClientError(t)
    \/ \E t \in Trackers : ClientDisconnect(t)
    \/ \E t \in Trackers : ClientConnect(t)
    \/ \E t \in Trackers, jobInfo \in JobInfos : TrackJob(t, jobInfo)
    \/ \E t \in Trackers, n \in JobNames, b \in BuildNumbers :
          CleanupCompletedJob(t, n, b)
    \/ \E k \in Keys : Expire(k)
    \/ \E d \in Deliveries : WebhookReceive(Ingress, d.raw, d.sig)
    \/ WebhookLookup(Ingress)
    \/ WebhookNotifyReply(Ingress)
    \/ WebhookUpdateRead(Ingress)
    \/ WebhookUpdateWrite(Ingress)
    \/ WebhookClose(Ingress)

SpecIngress == Init /\ [][NextIngress]_vars

\* one connection to the webhook endpoint, fed bodies in either serialization
\* under every signature header
NextSignature ==
    \/ MainInitializeMCP
    \/ MainInitializeTracker
    \/ MainStartWebhook
    \/ \E t \in Trackers : ClientError(t)
    \/ \E t \in Trackers : ClientConnect(t)
    \/ \E t \in Trackers, jobInfo \in JobInfos : TrackJob(t, jobInfo)
    \/ \E d \in SignatureDeliveries : WebhookReceive(Ingress, d.raw, d.sig)
    \/ WebhookLookup(Ingress)
    \/ WebhookNotifyReply(Ingress)
    \/ WebhookUpdateRead(Ingress)
    \/ WebhookUpdateWrite(Ingress)
    \/ WebhookClose(Ingress)

SpecSignature == Init /\ [][NextSignature]_vars

\* the exported functions called directly, one call at a time, against a
\* store whose keys may expire or be overwritten from outside
NextApi ==
    \/ MainInitializeMCP
    \/ MainInitializeTracker
    \/ MainStartWebhook
    \/ \E t \in Trackers : ClientError(t)
    \/ \E t \in Trackers : ClientDisconnect(t)
    \/ \E t \in Trackers : ClientConnect(t)
    \/ \E t \in Trackers, jobInfo \in JobInfos : ApiTrackJob(t, jobInfo)
    \/ \E t \in Trackers, n \in JobNames, b \in BuildNumbers : ApiGetJobInfo(t, n, b)
    \/ \E t \in Trackers, n \in JobNames, b \in BuildNumbers, st \in ApiStatuses,
          details \in ApiDetails :
          ApiUpdateStart(t, n, b, st, details)
    \/ ApiUpdateRead
    \/ ApiUpdateWrite
    \/ \E t \in Trackers, n \in JobNames, b \in BuildNumbers :
          ApiCleanupCompletedJob(t, n, b)
    \/ \E k \in Keys : ApiExpire(k)
    \/ \E k \in Keys : ApiForeignWrite(k)
    \/ \E env \in NodeEnvs : ApiBypass(env)
    \/ ApiReturn

SpecApi == Init /\ [][NextApi]_vars

\* the same, with Redis deleting every key whose time to live has run out
SpecApiFair == SpecApi /\ \A k \in Keys : WF_vars(ApiExpire(k))

\* the tracker's writes against a socket that drops and is reopened under
\* the reconnect strategy
NextReconnect ==
    \/ MainInitializeMCP
    \/ MainInitializeTracker
    \/ MainStartWebhook
    \/ \E t \in Trackers : ClientError(t)
    \/ \E t \in Trackers : ClientDisconnect(t)
    \/ \E t \in Trackers : ClientConnect(t)
    \/ \E t \in Trackers : ReconnectAttempt(t)
    \/ \E r \in RetryCounts : ApiReconnectStrategy(r)
    \/ \E t \in Trackers, jobInfo \in JobInfos : ApiTrackJob(t, jobInfo)
    \/ \E t \in Trackers, n \in JobNames, b \in BuildNumbers, st \in ApiStatuses,
          details \in ApiDetails :
          ApiUpdateStart(t, n, b, st, details)
    \/ ApiUpdateRead
    \/ ApiUpdateWrite
    \/ ApiReturn

SpecReconnect == Init /\ [][NextReconnect]_vars

\* the webhooks the CI server sends for a build that has ended well
CompletionDeliveries ==
    {[raw |-> JSONStringify(p), sig |-> SignedHeader(p)] : p \in SignaturePayloads}

\* the records other trigger_jenkins_job calls have tracked: trackJob is only
\* called for a request that carries callbackInfo
TrackedElsewhere ==
    {j \in JobInfos : Has(j, "callbackInfo") /\ j.callbackInfo = cbA}

\* a trigger_jenkins_job call beside the webhook endpoint: the CI server
\* starts the build and delivers its webhook while the tool polls the queue
NextRace ==
    \/ MainInitializeMCP
    \/ MainInitializeTracker
    \/ MainStartWebhook
    \/ \E t \in Trackers, jobInfo \in TrackedElsewhere : TrackJob(t, jobInfo)
    \/ \E args \in TriggerArgs : TriggerExecute(args)
    \/ TriggerBuildReply
    \/ TriggerPollStart
    \/ CiAssign
    \/ TriggerPollReply
    \/ TriggerSleep
    \/ TriggerReturn
    \/ \E d \in CompletionDeliveries : WebhookReceive(Ingress, d.raw, d.sig)
    \/ WebhookLookup(Ingress)
    \/ WebhookNotifyReply(Ingress)
    \/ WebhookUpdateRead(Ingress)
    \/ WebhookUpdateWrite(Ingress)
    \/ WebhookClose(Ingress)

SpecRace == Init /\ [][NextRace]_vars

\* the MCP server answering CallTool requests
NextMcp ==
    \/ MainInitializeMCP
    \/ MainInitializeTracker
    \/ MainStartWebhook
    \/ \E name \in RequestedNames, args \in ArgValues, fault \in ToolFaults :
          ApiCallTool(name, args, fault)
    \/ ApiReturn

SpecMcp == Init /\ [][NextMcp]_vars

\* the Jenkins client's read operations, called on every server reply
NextClient ==
    \/ \E jobs \in JobLists, filter \in Filters, incl \in IncludeDisabledArgs :
          ApiListJobs(jobs, filter, incl)
    \/ \E n \in JobNames, b \in BuildNumbers, build \in ServerBuilds :
          ApiGetBuildStatus(n, b, build)
    \/ ApiReturn

SpecClient == Init /\ [][NextClient]_vars

\* a tool registry in the hands of its callers
NextRegistry ==
    \/ MainInitializeMCP
    \/ \E toolName \in TestNames, schema \in Schemas, implementation \in Implementations :
          ApiRegisterTool(toolName, schema, implementation)
    \/ \E toolName \in TestNames : ApiUnregisterTool(toolName)
    \/ ApiClear
    \/ ApiReturn

SpecRegistry == Init /\ [][NextRegistry]_vars

\* the MCP service started, stopped and started again while clients call tools
NextLifecycle ==
    \/ MainInitializeMCP
    \/ ApiInitialize
    \/ ApiStop
    \/ \E name \in RequestedNames, args \in ArgValues, fault \in ToolFaults :
          ApiCallToolRequest(name, args, fault)
    \/ ApiReturn

SpecLifecycle == Init /\ [][NextLifecycle]_vars

\* ------------------------------------------------------------------- claims
StoredJob(k) == ParseJobInfo(store[k])

\* a sender that holds the configured secret computed this header over the body
Authentic(sec, sig, body) ==
    /\ sec # ""
    /\ sig # Null
    /\ sig.mac = HmacHex(IF sig.prefix = "sha1=" THEN "sha1" ELSE "sha256",
                         sec, JSONStringify(body))

ErrorShaped(body) ==
    /\ Has(body, "error")
    /\ Has(body.error, "code")
    /\ Has(body.error, "message")

\* C1: once a webhook with status SUCCESS, FAILURE or ABORTED has been fully
\* processed for a tracked build, a later COMPLETED webhook for that build
\* finds no TrackedJob: no request ever starts a notification from an entry
\* that already records a retiring status.
C1_DuplicateNotNotified ==
    [][\A r \in ReqIds :
        (req[r].pc = "lookup" /\ req'[r].pc = "notify")
            => StoredJob(ReqKey(req[r])).status \notin RetiringStatuses]_vars

\* C2: when a COMPLETED webhook with status SUCCESS, FAILURE or ABORTED is
\* processed with the notification and the store update succeeding, the key
\* of the build is gone from the store when the 200 response is sent.
C2_RetiredAtResponse ==
    [][\A r \in ReqIds :
        (/\ req[r].pc = "updWrite"
         /\ req'[r].pc = "done"
         /\ req'[r].resp.status = 200
         /\ req[r].body.build.status \in RetiringStatuses)
            => store'[ReqKey(req[r])] = Null]_vars

\* C3: an updateJobStatus write never changes an entry that holds a terminal
\* status to another status.
C3_TerminalStatusFinal ==
    [][\A r \in ReqIds : \A k \in Keys :
        (/\ req[r].pc = "updWrite"
         /\ req'[r].pc = "done"
         /\ store[k] # Null
         /\ store'[k] # Null
         /\ StoredJob(k).status \in TerminalStatuses)
            => store'[k].value.json.status = StoredJob(k).status]_vars

\* C4: a notification POST is attempted only when, at that moment, the store
\* holds an entry for the build and the entry contains callbackInfo.
C4_NotifyOnlyWithCallback ==
    [][\A r \in ReqIds :
        (req[r].calls.post = 0 /\ req'[r].calls.post > 0)
            => /\ store[ReqKey(req[r])] # Null
               /\ Has(StoredJob(ReqKey(req[r])), "callbackInfo")
               /\ req'[r].post.callbackInfo = StoredJob(ReqKey(req[r])).callbackInfo]_vars

C4_Witness ==
    \E r \in ReqIds :
        /\ req[r].pc = "notify"
        /\ req[r].calls.post = 1
        /\ Has(req[r].post, "callbackInfo")

\* C5: when trigger is called with callbackInfo and the CI client returns
\* build number N, the call returns a TRIGGERED result and the store holds
\* job:{jobName}:{N} with that callbackInfo and status PENDING.
C5_TriggerTracksBuild ==
    [][(/\ trig.pc = "poll"
        /\ trig'.pc = "done"
        /\ trig'.buildNumber > 0
        /\ Has(trig.args, "callbackInfo"))
            => /\ Has(trig'.result, "status")
               /\ trig'.result.status = "TRIGGERED"
               /\ store'[Key(trig.args.jobName, trig'.buildNumber)] # Null
               /\ store'[Key(trig.args.jobName, trig'.buildNumber)].value.json.callbackInfo
                    = trig.args.callbackInfo
               /\ store'[Key(trig.args.jobName, trig'.buildNumber)].value.json.status
                    = "PENDING"]_vars

C7_FailedPostLeavesStore ==
    \A r \in ReqIds :
        (req[r].calls.post = 1 /\ req[r].pc \notin {"notify"} /\ ~req[r].postOk)
            => /\ req[r].calls.update = 0
               /\ req[r].calls.setEx = 0
               /\ req[r].pending = Null

C7_Witness ==
    \E r \in ReqIds :
        /\ req[r].pc = "done"
        /\ req[r].calls.post = 1
        /\ ~req[r].postOk
        /\ store[ReqKey(req[r])] # Null
        /\ StoredJob(ReqKey(req[r])).status = "PENDING"

\* C8: a request whose notification POST failed is answered with HTTP 500
\* and an {error: {code, message}} body.
C8_FailedPostIs500 ==
    \A r \in ReqIds :
        (req[r].pc = "done" /\ req[r].calls.post = 1 /\ ~req[r].postOk)
            => /\ req[r].resp.status = 500
               /\ ErrorShaped(req[r].resp.body)

\* C9: a validly signed request whose payload fails shape validation is
\* answered with HTTP 400 and an error body, with no lookup, notification
\* or store write.
C9_InvalidPayloadIs400 ==
    \A r \in ReqIds :
        (/\ req[r].pc = "done"
         /\ Authentic(secret, req[r].sig, req[r].body)
         /\ ~SchemaAccepts(req[r].body))
            => /\ req[r].resp.status = 400
               /\ ErrorShaped(req[r].resp.body)
               /\ req[r].calls.lookup = 0
               /\ req[r].calls.post = 0
               /\ req[r].calls.setEx = 0

\* C10: when the lookup of a COMPLETED webhook finds no entry for the build,
\* the request is answered 200 with no notification and the store unchanged.
C10_UntrackedIsNoOp ==
    [][\A r \in ReqIds :
        (/\ req[r].pc = "lookup"
         /\ store[ReqKey(req[r])] = Null
         /\ req'[r] # req[r])
            => /\ req'[r].pc = "done"
               /\ req'[r].resp.status = 200
               /\ req'[r].calls.post = 0
               /\ req'[r].calls.update = 0
               /\ req'[r].calls.setEx = 0
               /\ store' = store]_vars

C10_Witness ==
    \E r \in ReqIds :
        /\ req[r].pc = "done"
        /\ req[r].calls.lookup = 1
        /\ req[r].calls.post = 0
        /\ req[r].resp.status = 200
        /\ store = [k \in Keys |-> Null]

\* C11: a validly signed, valid webhook whose phase is not COMPLETED or whose
\* status is absent is answered 200 at once, with no store lookup, no
\* notification and no store write, whatever the store holds for the build.
C11_IgnoredIsNoOp ==
    [][\A r \in ReqIds :
        (/\ req[r].pc = "idle"
         /\ req'[r].pc # "idle"
         /\ Authentic(secret, req'[r].sig, req'[r].body)
         /\ SchemaAccepts(req'[r].body)
         /\ \/ req'[r].body.build.phase # "COMPLETED"
            \/ ~Has(req'[r].body.build, "status"))
            => /\ req'[r].pc = "done"
               /\ req'[r].resp.status = 200
               /\ req'[r].calls.lookup = 0
               /\ req'[r].calls.post = 0
               /\ req'[r].calls.update = 0
               /\ req'[r].calls.setEx = 0
               /\ req'[r].post = Null
               /\ store' = store]_vars

C11_Witness ==
    \E r \in ReqIds :
        /\ req[r].pc = "done"
        /\ req[r].body.build.phase = "FINALIZED"
        /\ Has(req[r].body.build, "status")
        /\ req[r].resp.status = 200
        /\ req[r].calls.lookup = 0
        /\ store[ReqKey(req[r])] # Null
        /\ Has(StoredJob(ReqKey(req[r])), "callbackInfo")

\* C12: processing a COMPLETED webhook with status UNSTABLE never removes the
\* entry of the build, and when it completes it has sent the notification and
\* left the entry with status UNSTABLE.
C12_UnstableStays ==
    [][\A r \in ReqIds :
        (/\ req[r].pc \in {"lookup", "notify", "updRead", "updWrite"}
         /\ req[r].body.build.status = "UNSTABLE"
         /\ req'[r] # req[r])
            => /\ store[ReqKey(req[r])] # Null => store'[ReqKey(req[r])] # Null
               /\ (req[r].pc = "updWrite" /\ req'[r].resp.status = 200)
                    => /\ req[r].postOk
                       /\ store'[ReqKey(req[r])] # Null
                       /\ store'[ReqKey(req[r])].value.json.status = "UNSTABLE"]_vars

C12_Witness ==
    \E r \in ReqIds :
        /\ req[r].pc = "done"
        /\ req[r].calls.setEx = 1
        /\ req[r].body.build.status = "UNSTABLE"
        /\ req[r].postOk
        /\ req[r].resp.status = 200
        /\ store[ReqKey(req[r])] # Null
        /\ StoredJob(ReqKey(req[r])).status = "UNSTABLE"

\* webhookAuth called next(): handleJenkinsWebhook was entered
EnteredHandler(q) == q.calls.validate = 1

C14_FreshVerifiesMutatedFails ==
    [][\A r \in ReqIds :
        (/\ req[r].pc = "idle"
         /\ req'[r].pc # "idle"
         /\ secret # ""
         /\ req'[r].sig # Null)
            => /\ req'[r].sig.mac = HmacHex("sha256", secret, JSONStringify(req'[r].body))
                    => EnteredHandler(req'[r])
               /\ (\/ req'[r].sig.mac.edit # "none"
                   \/ req'[r].sig.mac.body # JSONStringify(req'[r].body))
                    => /\ ~EnteredHandler(req'[r])
                       /\ req'[r].resp.status = 401]_vars

\* C15: a request is accepted only on a signature computed over exactly the
\* body text that was received, and a request whose sender signed the body
\* text it sent is accepted.
C15_VerifiedOverReceivedBytes ==
    [][\A r \in ReqIds :
        (/\ req[r].pc = "idle"
         /\ req'[r].pc # "idle"
         /\ secret # ""
         /\ req'[r].sig # Null)
            => /\ EnteredHandler(req'[r]) => req'[r].sig.mac.body = req'[r].raw
               /\ (/\ req'[r].sig.prefix = "sha256="
                   /\ req'[r].sig.mac = HmacHex("sha256", secret, req'[r].raw))
                    => EnteredHandler(req'[r])]_vars

Completes(fn, from) ==
    /\ api.call.pc \in from
    /\ api'.call.pc = "done"
    /\ api'.call.fn = fn

\* C16: webhookAuthBypass throws without calling next() when the environment
\* is production, and calls next() exactly once in every other environment.
C16_BypassRefusedInProduction ==
    [][Completes("webhookAuthBypass", {"idle"})
        => IF api'.call.nodeEnv = "production"
           THEN api'.call.threw /\ api'.call.nextCalls = 0
           ELSE ~api'.call.threw /\ api'.call.nextCalls = 1]_vars

C16_Witness ==
    /\ api.call.fn = "webhookAuthBypass"
    /\ api.call.nodeEnv = "production"
    /\ api.call.threw
    /\ api.call.nextCalls = 0

C19_AbsentKeyNoOp ==
    [][(/\ Completes("updateJobStatus", {"idle", "read"})
        /\ store[api'.call.key] = Null)
            => /\ store' = store
               /\ ~api'.call.threw]_vars

\* C19 amended: an updateJobStatus that ends while no entry exists for its key
\* leaves the store unchanged; it raises no error when the instance was
\* connected at the call, and raises 'Redis client not connected' otherwise.
C19_AbsentKeyNoOpWhenConnected ==
    [][(/\ Completes("updateJobStatus", {"idle", "read"})
        /\ store[api'.call.key] = Null)
            => /\ store' = store
               /\ ~api'.call.wrote
               /\ api'.call.threw <=> (api.call.pc = "idle" /\ ~isConnected[api'.call.t])]_vars

C19_Witness ==
    /\ api.call.fn = "updateJobStatus"
    /\ api.call.pc = "done"
    /\ ~api.call.threw
    /\ ~api.call.wrote
    /\ isConnected[api.call.t]
    /\ store[api.call.key] = Null

\* C20: getJobInfo never raises and never changes the store, and it returns
\* null when the key is absent, the read fails, the instance is not connected
\* or the stored value is not JSON.
C20_GetNeverRaises ==
    [][Completes("getJobInfo", {"idle"})
        => /\ ~api'.call.threw
           /\ store' = store
           /\ (\/ store[api'.call.key] = Null
               \/ ~api'.call.readOk
               \/ ~api'.call.connected
               \/ ~CanParse(store[api'.call.key].value))
                => api'.call.result = Null]_vars

C20_Witness ==
    /\ api.call.fn = "getJobInfo"
    /\ api.call.connected
    /\ api.call.readOk
    /\ store[api.call.key] # Null
    /\ store[api.call.key].value = Garbage
    /\ api.call.result = Null

\* C21: a trackJob or updateJobStatus called on an instance whose isConnected
\* flag is false (no 'connect' event yet, or an 'error' or 'disconnect' event
\* since the last one) throws at once and the store is left as it was; and
\* updateJobStatus hands a record to setEx only while the flag is true.
C21_DisconnectedRejects ==
    [][/\ (/\ api.call.pc = "idle"
           /\ api'.call.fn \in {"trackJob", "updateJobStatus"}
           /\ ~isConnected[api'.call.t])
            => /\ api'.call.pc = "done"
               /\ api'.call.threw
               /\ store' = store
       /\ (api.call.pc = "read" /\ api'.call.pc = "write") => isConnected[api.call.t]]_vars

C21_Witness ==
    /\ mainPc = "listening"
    /\ api.call.fn = "trackJob"
    /\ api.call.pc = "done"
    /\ api.call.t = "webhook"
    /\ ~isConnected["webhook"]
    /\ api.call.threw
    /\ store[TrackKey(api.call.jobInfo)] = Null

\* a step in which the tracker's setEx on key k takes effect, or the value
\* under k is replaced from outside
WriteStep(k) ==
    \/ /\ Completes("trackJob", {"idle"})
       /\ ~api'.call.threw
       /\ TrackKey(api'.call.jobInfo) = k
    \/ /\ api.call.pc = "write"
       /\ api'.call.pc = "done"
       /\ api'.call.wrote
       /\ api'.call.key = k
    \/ /\ store'[k] # Null
       /\ store'[k] # store[k]

\* C22: every key in the store carries a time to live of 3600 s, each write
\* of trackJob and of updateJobStatus sets it, and an entry is in the end
\* deleted unless it is written again and again: a key never stays for ever
\* without further writes.
C22_EveryWriteExpires ==
    /\ [](\A k \in Keys : store[k] # Null => store[k].ttl = TTL_SECONDS)
    /\ [][\A k \in Keys :
            WriteStep(k) => store'[k] # Null /\ store'[k].ttl = TTL_SECONDS]_vars
    /\ \A k \in Keys :
            []<>(store[k] = Null) \/ []<><<WriteStep(k)>>_vars

C22_Witness ==
    /\ api.call.fn = "updateJobStatus"
    /\ api.call.pc = "done"
    /\ api.call.wrote
    /\ store[api.call.key] # Null
    /\ store[api.call.key].ttl = TTL_SECONDS
    /\ StoredJob(api.call.key).status = api.call.status

\* C23: reconnectStrategy(r) returns the delay min(100 r, 3000) ms for r <= 5
\* and stops for r > 5; the delays of successive attempts never decrease and
\* never exceed 3000 ms; at most six attempts fail in a row; and once the
\* client has given up it stays disconnected, so that trackJob and
\* updateJobStatus throw and write nothing.
C23_BoundedBackoff ==
    /\ [][Completes("reconnectStrategy", {"idle"})
            => IF api'.call.retries <= 5
               THEN /\ ~api'.call.result.stop
                    /\ api'.call.result.delay = Min(100 * api'.call.retries, 3000)
                    /\ api'.call.result.delay <= 3000
               ELSE api'.call.result.stop]_vars
    /\ [][\A t \in Trackers :
            /\ sock'[t].retries = sock[t].retries + 1
                => /\ sock'[t].delay >= sock[t].delay
                   /\ sock'[t].delay = 100 * sock[t].retries
            /\ sock[t].gaveUp => sock'[t].gaveUp]_vars
    /\ [](\A t \in Trackers :
            /\ sock[t].retries <= 6
            /\ sock[t].delay <= 3000
            /\ sock[t].gaveUp => sock[t].retries = 6 /\ ~isConnected[t])
    /\ [][(/\ api.call.pc = "idle"
           /\ api'.call.fn \in {"trackJob", "updateJobStatus"}
           /\ sock[api'.call.t].gaveUp)
            => /\ api'.call.pc = "done"
               /\ api'.call.threw
               /\ store' = store]_vars

C23_Witness ==
    /\ sock["webhook"].gaveUp
    /\ sock["webhook"].delay = 500
    /\ api.call.fn = "trackJob"
    /\ api.call.pc = "done"
    /\ api.call.t = "webhook"
    /\ api.call.threw

\* C24: whatever is thrown inside it, the execute() of each of the four tools
\* returns and does not throw, and on a failure the content it returns has
\* error = true with message, errorType and details.
C24_ToolsNeverThrow ==
    [][(Completes("CallTool", {"idle"}) /\ api'.call.out.executed)
        => /\ ~api'.call.out.tool.threw
           /\ api'.call.fault # NoFault
                => /\ Has(api'.call.out.tool.content, "error")
                   /\ api'.call.out.tool.content.error = TRUE
                   /\ Has(api'.call.out.tool.content, "message")
                   /\ Has(api'.call.out.tool.content, "errorType")
                   /\ Has(api'.call.out.tool.content, "details")]_vars

\* params.arguments is present: neither undefined nor null
Present(args) == args # Undefined /\ args # JsNull

Coded(error, n) == Has(error, "code") /\ error.code.num /\ error.code.value = n

\* C25: the CallTool handler throws with code -32601 for a name that is not
\* registered, with code -32602 for arguments that are present and not an
\* object, with code -32603 around a tool's error that carries no numeric
\* code, and throws again, unchanged, a tool's error that carries one.
C25_CallToolCodes ==
    [][Completes("CallTool", {"idle"})
        => LET c == api'.call IN
           /\ c.name \notin ToolNames => c.out.threw /\ Coded(c.out.error, -32601)
           /\ (c.name \in ToolNames /\ Present(c.args) /\ c.args.type # "object")
                => c.out.threw /\ Coded(c.out.error, -32602)
           /\ (c.out.executed /\ c.out.tool.threw /\ ~isMCPError(c.out.tool.error))
                => c.out.threw /\ Coded(c.out.error, -32603)
           /\ (c.out.executed /\ c.out.tool.threw /\ isMCPError(c.out.tool.error))
                => c.out.threw /\ c.out.error = c.out.tool.error]_vars

\* C26: a step of the trigger operation changes the store only when the poll
\* has shown the build number the CI server assigned and callbackInfo was
\* given, and then only the key of that build; a trigger that ends without a
\* build number, the request rejected or the wait timed out, has written
\* nothing.
C26_FailedTriggerWritesNothing ==
    [][trig' # trig
        => /\ store' # store
                => /\ trig.pc = "poll"
                   /\ trig'.buildNumber > 0
                   /\ trig'.buildNumber = trig.assigned
                   /\ Has(trig.args, "callbackInfo")
                   /\ \A k \in Keys \ {Key(trig.args.jobName, trig'.buildNumber)} :
                        store'[k] = store[k]
           /\ (trig'.pc = "done" /\ trig'.buildNumber = 0)
                => /\ store' = store
                   /\ ~trig'.tracked
                   /\ Has(trig'.result, "error")]_vars

C26_Witness ==
    /\ trig.pc = "done"
    /\ trig.buildNumber = 0
    /\ trig.queueId = 0
    /\ Has(trig.args, "callbackInfo")
    /\ Has(trig.result, "error")
    /\ ~trig.tracked
    /\ store = [k \in Keys |-> Null]

Listed(job, filter, includeDisabledArg) ==
    /\ (includeDisabledArg.given /\ includeDisabledArg.value) \/ job.color # "disabled"
    /\ ~filter.given \/ StringIncludes(toLowerCase(job.name), toLowerCase(filter.value))

Awaited(body) ==
    /\ trig.args # Null
    /\ Has(trig.args, "callbackInfo")
    /\ trig.assigned # 0
    /\ trig.args.jobName = body.name
    /\ trig.assigned = body.build.number

\* C30: a validly signed COMPLETED webhook with a terminal status for the
\* build of a trigger call that carried callbackInfo goes on to the notifier
\* whenever its store lookup does not fail, wherever the trigger call stands:
\* polling the queue, before its store write, or past it.
C30_WebhookOfTriggeredBuildNotifies ==
    [][\A r \in ReqIds :
        (/\ req[r].pc = "lookup"
         /\ req'[r] # req[r]
         /\ req'[r].readOk
         /\ Awaited(req[r].body))
            => /\ req'[r].pc = "notify"
               /\ req'[r].calls.post = 1]_vars

\* C31: updateJobStatus never re-creates an entry that is absent at the moment
\* it writes: its client.setEx leaves a key that cleanupCompletedJob or the
\* expiry has removed since the read absent.
C31_UpdateNeverRecreates ==
    [][\A k \in Keys :
        (/\ api.call.fn = "updateJobStatus"
         /\ api.call.pc = "write"
         /\ TrackKey(api.call.pending) = k
         /\ store[k] = Null)
            => store'[k] = Null]_vars

C33_OnePostNoRetry ==
    [][\A r \in ReqIds :
        /\ req'[r].calls.post <= 1
        /\ (/\ req[r].pc = "notify"
            /\ req'[r] # req[r]
            /\ ~req'[r].postOk)
               => /\ req'[r].pc = "done"
                  /\ req'[r].calls.post = 1
                  /\ req'[r].calls.update = 0
                  /\ req'[r].resp.status = 400
                  /\ req'[r].resp.body.error.code = "WEBHOOK_ERROR"
                  /\ req'[r].resp.body.error.details.name = "WebhookError"]_vars

C33_Witness ==
    \E r \in ReqIds :
        /\ req[r].pc = "done"
        /\ req[r].calls.post = 1
        /\ ~req[r].postOk
        /\ req[r].resp.status = 400
        /\ Includes(req[r].resp.body.error.message, "status code")

HttpStatuses == {200, 400, 401, 500}

C35_RegistryConsistent ==
    /\ [](\A n \in RegistryNames :
            mcp.tools[n] # Null =>
                /\ mcp.tools[n].schema.name = n
                /\ validateSchema(mcp.tools[n].schema) = Null)
    /\ [][(api'.call.fn = "registerTool" /\ api.call.pc = "idle") =>
            LET c == api'.call IN
            /\ c.threw => mcp'.tools = mcp.tools
            /\ ~c.threw =>
                  /\ mcp'.tools[c.name] =
                        [schema |-> c.schema, implementation |-> c.implementation]
                  /\ \A n \in RegistryNames \ {c.name} : mcp'.tools[n] = mcp.tools[n]
            /\ (~c.threw /\ mcp.tools[c.name] # Null) =>
                  Size(mcp'.tools) = Size(mcp.tools)
            /\ (c.threw <=> (validateSchema(c.schema) # Null \/ c.schema.name # c.name))]_vars

C35_Witness ==
    /\ api.call.fn = "registerTool"
    /\ ~api.call.threw
    /\ api.call.size = Size(mcp.tools)
    /\ api.call.size >= 1
    /\ mcp.tools[api.call.name].implementation = api.call.implementation

Registered(m) == {n \in DOMAIN m.tools : m.tools[n] # Null}

\* C36: the registry holds exactly the four tools whenever the service is
\* initialized; initialize() on an initialized service and stop() on a
\* service that is not initialized change nothing (no handler installed
\* again, no tool registered again); stop() on an initialized service leaves
\* the registry empty and the service not initialized; a CallTool request
\* that arrives while the service is stopped fails with code -32601 for every
\* tool name, and no tool is executed.
C36_Lifecycle ==
    /\ [](mcp.isInitialized => Registered(mcp) = ToolNames)
    /\ [][(api.call.pc = "idle" /\ api'.call.fn = "initialize" /\ mcp.isInitialized)
            => mcp' = mcp]_vars
    /\ [][(api.call.pc = "idle" /\ api'.call.fn = "stop") =>
            /\ ~mcp.isInitialized => mcp' = mcp
            /\ mcp.isInitialized =>
                  /\ Registered(mcp') = {}
                  /\ ~mcp'.isInitialized
                  /\ mcp'.installs = mcp.installs]_vars
    /\ [][(api.call.pc = "idle" /\ api'.call.fn = "CallToolRequest"
              /\ ~mcp.isInitialized) =>
            /\ api'.call.out.threw
            /\ ~api'.call.out.executed
            /\ api'.call.out.error.code = [num |-> TRUE, value |-> -32601]]_vars

C36_Witness ==
    /\ api.call.fn = "CallToolRequest"
    /\ api.call.name \in ToolNames
    /\ ~mcp.isInitialized
    /\ mcp.installs = MaxInstalls
    /\ api.call.out.error.code.value = -32601

====
